---- MODULE Spec2Model ----
(***************************************************************************)
(* srcembed: stdin bytes -> C/C++ array source on stdout.                  *)
(*                                                                         *)
(* Bytes are ASCII codes (naturals 0..255).  Pointers into a stream's      *)
(* double buffer are offsets from the start of its `buffer` array.         *)
(*                                                                         *)
(* Specifications:                                                         *)
(*   SpecFmt  : the decimal formatter (lookup table + output_uint8)        *)
(*   SpecOut  : asyncio::stdout_stream, producer thread + flusher thread   *)
(*   SpecIn   : asyncio::stdin_stream, consumer thread + reader thread     *)
(*   SpecMain : main(): framing, transport selector, the four engines      *)
(*   SpecArgs : manageArgs and the language test of outputSource           *)
(*   SpecPrintf : one meta_print_to_outputter call, compile and execute    *)
(*   SpecMeminfo : mmapWriteDoubleBuffer with the /proc/meminfo parser     *)
(***************************************************************************)
EXTENDS Integers, Sequences, FiniteSets, TLC

VARIABLES
    \* ---- formatter (memory_outputter) ----
    f_pc, f_input, f_mem, f_inner_ptr,
    \* ---- one meta_print_to_outputter call: blueprint, program, outputter ----
    pf,
    \* ---- one mmapWriteDoubleBuffer call: the meminfo parser, the two mappings ----
    hp,
    \* ---- asyncio::stdout_stream ----
    out_buffer,               \* buffer[buffer_size * 2]
    buffer_user_write_head,   \* offset into buffer
    full_buffer,              \* "left" | "right": the half the flusher owns
    buffer_flush_pending,
    flush_size,
    finalize_flusher_thread,
    flusher_pc, flusher_side, \* position of flusher_thread_code
    p_pc,                     \* position of the calling thread inside write/flush/dispose
    p_in,                     \* write(): input bytes not yet copied
    p_op,                     \* the call in progress: "write" | "flush" | "dispose"
    p_saw,                    \* the call passed a flush-wait after the flusher had failed
    p_ret,                    \* last returned call: [op, ok, after_fail, saw]
    fd_out,                   \* bytes the STDOUT descriptor has received
    \* ---- history of a run of the stdout stream ----
    accepted,                 \* concatenation of the inputs of all write calls
    raw_log,                  \* one record per raw ::write of the flusher
    handoffs,                 \* one record per hand-off of a half
    call_failed,              \* some write/flush call has returned false
    faults_left,              \* raw-write faults (error or short count) the environment may still inject
    drv_calls,                \* number of calls the test producer has made
    \* ---- asyncio::stdin_stream ----
    in_buffer,                \* buffer[buffer_size * 2]
    buffer_user_read_head,    \* offset into buffer
    empty_buffer,             \* "left" | "right": the half the reader owns
    buffer_read_pending,
    finalize_reader_thread,
    reader_pc, reader_side,   \* position of reader_thread_code
    rfb_buf, rfb_count,       \* read_full_buffer(): buf (offset) and count
    in_errno,                 \* errno of the reader thread
    c_pc,                     \* position of the calling thread inside read/dispose
    c_end,                    \* read(): read_end_ptr
    c_cur_end,                \* read(): current_buffer_end_ptr of this pass
    c_size,                   \* read(): output_size of the call
    c_got,                    \* read(): bytes copied to output_ptr by this call
    c_ret,                    \* last returned read: [ok, size]
    fd_in,                    \* bytes the STDIN descriptor has still to produce
    \* ---- history of a run of the stdin stream ----
    raw_in,                   \* bytes the raw reads have taken from the descriptor
    delivered,                \* bytes copied to the consumer by all read calls
    in_filled,                \* buffer offsets a raw read has stored into
    in_oob,                   \* a raw read was given memory beyond the buffer
    agains_left, in_errs_left,\* EAGAIN results / failures the descriptor may still give
    in_calls,                 \* number of calls the test consumer has made
    \* ---- main.cpp ----
    m_pc,                     \* position of the main thread
    m_env,                    \* [language, varname, stdin_kind, stdout_kind, input]
    m_eng,                    \* the engine's locals: [name, pos, cur, toggle, tb, tail,
                              \*   step, ops, cont]
    m_hist,                   \* history: [emit, splices, ran, why], and the pages of
                              \* the output buffers the stdout pipe still holds (pipe)
    exit_code,                \* exit status of the process
    stderr_out,               \* what the process wrote to stderr
    stray_left,               \* reads beyond the input mapping that may still succeed
    \* ---- main.cpp: manageArgs ----
    argv,                     \* argv[1 .. argc - 1], each argument a sequence of characters
    arg_i,                    \* the loop variable i of manageArgs
    normalArgIndex,
    flags_varname             \* flags::varname: <<>> for nullptr, <<value>> once set

fmtVars == <<f_pc, f_input, f_mem, f_inner_ptr, pf, hp>>
outVars == <<out_buffer, buffer_user_write_head, full_buffer, buffer_flush_pending,
             flush_size, finalize_flusher_thread, flusher_pc, flusher_side,
             p_pc, p_in, p_op, p_saw, p_ret, fd_out,
             accepted, raw_log, handoffs, call_failed, faults_left>>
drvVars == <<drv_calls>>
inVars == <<in_buffer, buffer_user_read_head, empty_buffer, buffer_read_pending,
            finalize_reader_thread, reader_pc, reader_side, rfb_buf, rfb_count, in_errno,
            c_pc, c_end, c_cur_end, c_size, c_got, c_ret, fd_in, raw_in, delivered,
            in_filled, in_oob, agains_left, in_errs_left, in_calls>>

mainVars == <<m_pc, m_env, m_eng, m_hist, exit_code, stderr_out, stray_left>>
argVars == <<argv, arg_i, normalArgIndex, flags_varname>>

\* everything outside the stdout stream
notOut == <<fmtVars, drvVars, inVars, mainVars, argVars>>
\* everything outside the stdin stream
notIn == <<fmtVars, outVars, drvVars, mainVars, argVars>>

vars == <<fmtVars, outVars, drvVars, inVars, mainVars, argVars>>

----------------------------------------------------------------------------
(* ASCII *)
CH_NUL == 0
CH_0 == 48

\* exit_code while the process runs
NOT_EXITED == -1

\* threads run while the process has not exited
ProcessAlive == exit_code = NOT_EXITED

----------------------------------------------------------------------------
(* meta_printf: decimal lookup table                                       *)

\* the do/while loop of generate_uint8_string_lookup_list for one entry:
\* writes digits right to left into slots 3,2,1 and returns the entry with
\* slot 0 set to the number of blank slots
RECURSIVE lookup_fill(_, _, _)
lookup_fill(entry, blank_space, value) ==
    LET b == blank_space - 1
        e == [entry EXCEPT ![b] = (value % 10) + CH_0]
        v == value \div 10
    IN  IF v = 0 THEN [e EXCEPT ![0] = b] ELSE lookup_fill(e, b, v)

lookup_entry(i) == lookup_fill([s \in 0..3 |-> 0], 4, i)

\* 256 entries of 4 bytes each, flattened
generate_uint8_string_lookup_list ==
    [k \in 0..1023 |-> lookup_entry(k \div 4)[k % 4]]

uint8_string_lookup_list == generate_uint8_string_lookup_list

\* mutant: copies one slot too far to the left (includes the blank count slot)
output_uint8_offbyone(input) ==
    LET lookup_index == (input * 4) % 65536
        blank_space == uint8_string_lookup_list[lookup_index]
    IN  [j \in 1..(5 - blank_space) |->
            uint8_string_lookup_list[lookup_index + blank_space - 1 + (j - 1)]]

\* the bytes output_uint8 hands to outputter.copy_input_from_ptr
output_uint8(input) ==
    LET lookup_index == (input * 4) % 65536
        blank_space == uint8_string_lookup_list[lookup_index]
    IN  [j \in 1..(4 - blank_space) |->
            uint8_string_lookup_list[lookup_index + blank_space + (j - 1)]]

----------------------------------------------------------------------------
(* memory_outputter                                                        *)

FmtMemLen == 4

\* memory_outputter::copy_input_from_ptr: std::copy into inner_ptr, which advances
mem_copy_input_from_ptr(mem, ptr, bytes) ==
    [mem |-> [a \in DOMAIN mem |->
                IF a >= ptr /\ a < ptr + Len(bytes) THEN bytes[a - ptr + 1] ELSE mem[a]],
     inner_ptr |-> ptr + Len(bytes)]

\* execute_program, UINT8 op: output_uint8(outputter, first_arg)
Fmt_output_uint8 ==
    /\ f_pc = "start"
    /\ LET r == mem_copy_input_from_ptr(f_mem, f_inner_ptr, output_uint8(f_input))
       IN  /\ f_mem' = r.mem
           /\ f_inner_ptr' = r.inner_ptr
    /\ f_pc' = "done"
    /\ UNCHANGED <<f_input, pf, hp, outVars, drvVars, inVars, mainVars, argVars>>

----------------------------------------------------------------------------
(* asyncio::stdout_stream<buffer_size>                                     *)

OutBufSize == 2        \* buffer_size of the stream under test

\* (bool)buffer_position_t: left = true, right = false
PosBool(pos) == IF pos = "left" THEN 1 ELSE 0
\* operator!(buffer_position_t)
PosNot(pos) == IF pos = "left" THEN "right" ELSE "left"

\* std::copy(input, input + Len(bytes), buffer + at)
buf_copy(buf, at, bytes) ==
    [a \in DOMAIN buf |->
        IF a >= at /\ a < at + Len(bytes) THEN bytes[a - at + 1] ELSE buf[a]]

TakeN(seq, n) == SubSeq(seq, 1, n)
DropN(seq, n) == SubSeq(seq, n + 1, Len(seq))

\* a call returns to its caller
out_return(op, ok) ==
    /\ p_pc' = "idle"
    /\ p_ret' = [op |-> op, ok |-> ok, after_fail |-> call_failed, saw |-> p_saw]
    /\ call_failed' = (call_failed \/ ~ok)

\* a caller enters write(input_ptr, input_size)
out_call_write(bytes) ==
    /\ p_pc' = "w_top"
    /\ p_op' = "write"
    /\ p_in' = bytes
    /\ p_saw' = FALSE
    /\ accepted' = accepted \o bytes

\* a caller enters flush()
out_call_flush ==
    /\ p_pc' = "fl_size"
    /\ p_op' = "flush"
    /\ p_in' = <<>>
    /\ p_saw' = FALSE

\* a caller enters dispose(), whose first statement is flush()
out_call_dispose ==
    /\ p_pc' = "fl_size"
    /\ p_op' = "dispose"
    /\ p_in' = <<>>
    /\ p_saw' = FALSE

\* the flusher has set finalize_flusher_thread after a failed raw write
FlusherFailed == flusher_pc \in {"fail_pending", "dead"}

\* mutant: hands the half off without waiting for the previous flush
write_may_hand_off_eager == TRUE

\* write(): "while (buffer_flush_pending) { }"
write_may_hand_off == ~buffer_flush_pending

\* write(): free_space test, copy, and either return or go on to the hand-off
write_top ==
    /\ p_pc = "w_top"
    /\ LET free_space == OutBufSize + PosBool(full_buffer) * OutBufSize
                            - buffer_user_write_head
       IN  IF Len(p_in) < free_space
           THEN /\ out_buffer' = buf_copy(out_buffer, buffer_user_write_head, p_in)
                /\ buffer_user_write_head' = buffer_user_write_head + Len(p_in)
                /\ p_in' = <<>>
                /\ out_return("write", TRUE)
                /\ UNCHANGED <<p_op, p_saw>>
           ELSE /\ out_buffer' = buf_copy(out_buffer, buffer_user_write_head,
                                          TakeN(p_in, free_space))
                /\ buffer_user_write_head' = buffer_user_write_head + free_space
                /\ p_in' = DropN(p_in, free_space)
                /\ p_pc' = "w_wait"
                /\ UNCHANGED <<p_op, p_saw, p_ret, call_failed>>
    /\ UNCHANGED <<full_buffer, buffer_flush_pending, flush_size, finalize_flusher_thread,
                   flusher_pc, flusher_side, fd_out, accepted, raw_log, handoffs, faults_left, notOut>>

\* write(): "while (buffer_flush_pending) { }  if (finalize_flusher_thread) { return false; }"
write_wait ==
    /\ p_pc = "w_wait"
    /\ write_may_hand_off
    /\ p_saw' = (p_saw \/ FlusherFailed)
    /\ IF finalize_flusher_thread
       THEN out_return("write", FALSE)
       ELSE /\ p_pc' = "w_pending"
            /\ UNCHANGED <<p_ret, call_failed>>
    /\ UNCHANGED <<out_buffer, buffer_user_write_head, full_buffer, buffer_flush_pending,
                   flush_size, finalize_flusher_thread, flusher_pc, flusher_side,
                   p_in, p_op, fd_out, accepted, raw_log, handoffs, faults_left, notOut>>

\* write(): "buffer_flush_pending = true;"
write_set_pending ==
    /\ p_pc = "w_pending"
    /\ buffer_flush_pending' = TRUE
    /\ p_pc' = "w_flip"
    /\ UNCHANGED <<out_buffer, buffer_user_write_head, full_buffer, flush_size,
                   finalize_flusher_thread, flusher_pc, flusher_side, p_in, p_op, p_saw,
                   p_ret, fd_out, accepted, raw_log, handoffs, call_failed, faults_left, notOut>>

\* write(): "full_buffer = !full_buffer;  buffer_user_write_head = buffer + (bool)full_buffer * buffer_size;"
write_flip ==
    /\ p_pc = "w_flip"
    /\ full_buffer' = PosNot(full_buffer)
    /\ buffer_user_write_head' = PosBool(PosNot(full_buffer)) * OutBufSize
    /\ handoffs' = Append(handoffs, [by |-> "write", side |-> PosNot(full_buffer),
                                     filled |-> OutBufSize, after_fail |-> call_failed])
    /\ p_pc' = "w_top"
    /\ UNCHANGED <<out_buffer, buffer_flush_pending, flush_size, finalize_flusher_thread,
                   flusher_pc, flusher_side, p_in, p_op, p_saw, p_ret, fd_out,
                   accepted, raw_log, call_failed, faults_left, notOut>>
\* flush(): "flush_size = buffer_user_write_head - (buffer + (bool)full_buffer * buffer_size);"
flush_set_size ==
    /\ p_pc = "fl_size"
    /\ flush_size' = buffer_user_write_head - PosBool(full_buffer) * OutBufSize
    /\ p_pc' = "fl_wait"
    /\ UNCHANGED <<out_buffer, buffer_user_write_head, full_buffer, buffer_flush_pending,
                   finalize_flusher_thread, flusher_pc, flusher_side, p_in, p_op, p_saw,
                   p_ret, fd_out, accepted, raw_log, handoffs, call_failed, faults_left, notOut>>

\* what flush() returned to: its caller, or the rest of dispose()
flush_return(ok) ==
    IF p_op = "dispose"
    THEN /\ p_pc' = "d_finalize"
         /\ UNCHANGED <<p_ret, call_failed>>
    ELSE out_return("flush", ok)

\* flush(): "while (buffer_flush_pending) { }  if (finalize_flusher_thread) { return false; }"
flush_wait ==
    /\ p_pc = "fl_wait"
    /\ ~buffer_flush_pending
    /\ p_saw' = (p_saw \/ FlusherFailed)
    /\ IF finalize_flusher_thread
       THEN flush_return(FALSE)
       ELSE /\ p_pc' = "fl_pending"
            /\ UNCHANGED <<p_ret, call_failed>>
    /\ UNCHANGED <<out_buffer, buffer_user_write_head, full_buffer, buffer_flush_pending,
                   flush_size, finalize_flusher_thread, flusher_pc, flusher_side,
                   p_in, p_op, fd_out, accepted, raw_log, handoffs, faults_left, notOut>>

\* flush(): "buffer_flush_pending = true;"
flush_set_pending ==
    /\ p_pc = "fl_pending"
    /\ buffer_flush_pending' = TRUE
    /\ p_pc' = "fl_flip"
    /\ UNCHANGED <<out_buffer, buffer_user_write_head, full_buffer, flush_size,
                   finalize_flusher_thread, flusher_pc, flusher_side, p_in, p_op, p_saw,
                   p_ret, fd_out, accepted, raw_log, handoffs, call_failed, faults_left, notOut>>

\* flush(): "full_buffer = !full_buffer;"
flush_flip ==
    /\ p_pc = "fl_flip"
    /\ full_buffer' = PosNot(full_buffer)
    /\ handoffs' = Append(handoffs, [by |-> "flush", side |-> PosNot(full_buffer),
                                     filled |-> buffer_user_write_head
                                                  - PosBool(full_buffer) * OutBufSize,
                                     after_fail |-> call_failed])
    /\ p_pc' = "fl_wait2"
    /\ UNCHANGED <<out_buffer, buffer_user_write_head, buffer_flush_pending, flush_size,
                   finalize_flusher_thread, flusher_pc, flusher_side, p_in, p_op, p_saw,
                   p_ret, fd_out, accepted, raw_log, call_failed, faults_left, notOut>>

\* flush(): second "while (buffer_flush_pending) { }", then
\* "flush_size = buffer_size;  buffer_user_write_head = buffer + (bool)full_buffer * buffer_size;  return true;"
flush_finish ==
    /\ p_pc = "fl_wait2"
    /\ ~buffer_flush_pending
    /\ p_saw' = (p_saw \/ FlusherFailed)
    /\ flush_size' = OutBufSize
    /\ buffer_user_write_head' = PosBool(full_buffer) * OutBufSize
    /\ IF p_op = "dispose"
       THEN /\ p_pc' = "d_finalize"
            /\ UNCHANGED <<p_ret, call_failed>>
       ELSE /\ p_pc' = "idle"
            /\ p_ret' = [op |-> "flush", ok |-> TRUE, after_fail |-> call_failed,
                         saw |-> (p_saw \/ FlusherFailed)]
            /\ UNCHANGED call_failed
    /\ UNCHANGED <<out_buffer, full_buffer, buffer_flush_pending, finalize_flusher_thread,
                   flusher_pc, flusher_side, p_in, p_op, fd_out, accepted, raw_log,
                   handoffs, faults_left, notOut>>

\* dispose(): "finalize_flusher_thread = true;"
dispose_finalize ==
    /\ p_pc = "d_finalize"
    /\ finalize_flusher_thread' = TRUE
    /\ p_pc' = "d_flip"
    /\ UNCHANGED <<out_buffer, buffer_user_write_head, full_buffer, buffer_flush_pending,
                   flush_size, flusher_pc, flusher_side, p_in, p_op, p_saw, p_ret,
                   fd_out, accepted, raw_log, handoffs, call_failed, faults_left, notOut>>

\* dispose(): "full_buffer = !full_buffer;"
dispose_flip ==
    /\ p_pc = "d_flip"
    /\ full_buffer' = PosNot(full_buffer)
    /\ p_pc' = "d_join"
    /\ UNCHANGED <<out_buffer, buffer_user_write_head, buffer_flush_pending, flush_size,
                   finalize_flusher_thread, flusher_pc, flusher_side, p_in, p_op, p_saw,
                   p_ret, fd_out, accepted, raw_log, handoffs, call_failed, faults_left, notOut>>

\* dispose(): "flusher_thread.join();"
dispose_join ==
    /\ p_pc = "d_join"
    /\ flusher_pc \in {"exited", "dead"}
    /\ p_pc' = "idle"
    /\ p_ret' = [op |-> "dispose", ok |-> TRUE, after_fail |-> call_failed, saw |-> p_saw]
    /\ UNCHANGED <<out_buffer, buffer_user_write_head, full_buffer, buffer_flush_pending,
                   flush_size, finalize_flusher_thread, flusher_pc, flusher_side,
                   p_in, p_op, p_saw, fd_out, accepted, raw_log, handoffs, call_failed,
                   faults_left, notOut>>

\* initialize(): "flusher_thread = std::thread(flusher_thread_code);"
out_initialize ==
    /\ flusher_pc = "off"
    /\ flusher_pc' = "spin"

\* byte offset of the half the flusher writes: "buffer" (left) or "buffer + buffer_size" (right)
FlusherBase(side) == IF side = "left" THEN 0 ELSE OutBufSize

\* what ::write(STDOUT_FILENO, ptr, count) may return: -1, or the number of bytes taken
RawWriteOutcomes(count) ==
    IF faults_left = 0 THEN {count} ELSE {-1} \cup (IF count = 0 THEN {0} ELSE 1..count)

\* mutant: the spin is left while the other half is the full one
flusher_may_leave_spin_swapped == full_buffer # flusher_side

\* flusher_thread_code(): "while (full_buffer == buffer_position_t::right) { }" (and ::left)
flusher_may_leave_spin == full_buffer = flusher_side

flusher_spin ==
    /\ ProcessAlive
    /\ flusher_pc = "spin"
    /\ flusher_may_leave_spin
    /\ flusher_pc' = "check"
    /\ UNCHANGED <<out_buffer, buffer_user_write_head, full_buffer, buffer_flush_pending,
                   flush_size, finalize_flusher_thread, flusher_side, p_pc, p_in, p_op,
                   p_saw, p_ret, fd_out, accepted, raw_log, handoffs, call_failed,
                   faults_left, notOut>>

\* mutant: the flusher goes on to its raw write without looking at the flag
flusher_check_blind ==
    /\ ProcessAlive
    /\ flusher_pc = "check"
    /\ flusher_pc' = "write"
    /\ UNCHANGED <<out_buffer, buffer_user_write_head, full_buffer, buffer_flush_pending,
                   flush_size, finalize_flusher_thread, flusher_side, p_pc, p_in, p_op,
                   p_saw, p_ret, fd_out, accepted, raw_log, handoffs, call_failed,
                   faults_left, notOut>>

\* flusher_thread_code(): "if (finalize_flusher_thread) { return; }"
flusher_check ==
    /\ ProcessAlive
    /\ flusher_pc = "check"
    /\ flusher_pc' = IF finalize_flusher_thread THEN "exited" ELSE "write"
    /\ UNCHANGED <<out_buffer, buffer_user_write_head, full_buffer, buffer_flush_pending,
                   flush_size, finalize_flusher_thread, flusher_side, p_pc, p_in, p_op,
                   p_saw, p_ret, fd_out, accepted, raw_log, handoffs, call_failed,
                   faults_left, notOut>>

\* flusher_thread_code(): "::write(STDOUT_FILENO, buffer [+ buffer_size], flush_size)"
flusher_write ==
    /\ ProcessAlive
    /\ flusher_pc = "write"
    /\ \E r \in RawWriteOutcomes(flush_size) :
        /\ raw_log' = Append(raw_log, [side |-> flusher_side, count |-> flush_size, ret |-> r,
                                    after_fail |-> call_failed])
        /\ faults_left' = IF r = flush_size THEN faults_left ELSE faults_left - 1
        /\ IF r = -1
           THEN /\ flusher_pc' = "fail_finalize"
                /\ UNCHANGED fd_out
           ELSE /\ flusher_pc' = "clear"
                /\ fd_out' = fd_out \o [j \in 1..r |->
                                          out_buffer[FlusherBase(flusher_side) + j - 1]]
    /\ UNCHANGED <<out_buffer, buffer_user_write_head, full_buffer, buffer_flush_pending,
                   flush_size, finalize_flusher_thread, flusher_side, p_pc, p_in, p_op,
                   p_saw, p_ret, accepted, handoffs, call_failed, notOut>>

\* flusher_thread_code(): "buffer_flush_pending = false;" and on to the other half's spin
flusher_clear ==
    /\ ProcessAlive
    /\ flusher_pc = "clear"
    /\ buffer_flush_pending' = FALSE
    /\ flusher_side' = PosNot(flusher_side)
    /\ flusher_pc' = "spin"
    /\ UNCHANGED <<out_buffer, buffer_user_write_head, full_buffer, flush_size,
                   finalize_flusher_thread, p_pc, p_in, p_op, p_saw, p_ret, fd_out,
                   accepted, raw_log, handoffs, call_failed, faults_left, notOut>>

\* flusher_thread_code(), failed write: "finalize_flusher_thread = true;"
flusher_fail_finalize ==
    /\ ProcessAlive
    /\ flusher_pc = "fail_finalize"
    /\ finalize_flusher_thread' = TRUE
    /\ flusher_pc' = "fail_pending"
    /\ UNCHANGED <<out_buffer, buffer_user_write_head, full_buffer, buffer_flush_pending,
                   flush_size, flusher_side, p_pc, p_in, p_op, p_saw, p_ret, fd_out,
                   accepted, raw_log, handoffs, call_failed, faults_left, notOut>>

\* mutant: the failed flusher returns without clearing buffer_flush_pending
flusher_fail_pending_kept ==
    /\ ProcessAlive
    /\ flusher_pc = "fail_pending"
    /\ flusher_pc' = "dead"
    /\ UNCHANGED <<out_buffer, buffer_user_write_head, full_buffer, buffer_flush_pending,
                   flush_size, finalize_flusher_thread, flusher_side, p_pc, p_in, p_op,
                   p_saw, p_ret, fd_out, accepted, raw_log, handoffs, call_failed,
                   faults_left, notOut>>

\* flusher_thread_code(), failed write: "buffer_flush_pending = false;  return;"
flusher_fail_pending ==
    /\ ProcessAlive
    /\ flusher_pc = "fail_pending"
    /\ buffer_flush_pending' = FALSE
    /\ flusher_pc' = "dead"
    /\ UNCHANGED <<out_buffer, buffer_user_write_head, full_buffer, flush_size,
                   finalize_flusher_thread, flusher_side, p_pc, p_in, p_op, p_saw, p_ret,
                   fd_out, accepted, raw_log, handoffs, call_failed, faults_left, notOut>>

----------------------------------------------------------------------------
(* asyncio::stdin_stream<buffer_size>                                      *)

InBufSize == 2         \* buffer_size of the stream under test

\* size_t arithmetic wraps modulo SIZE_MOD (the model's size_t is 16 bits wide)
SIZE_MOD == 65536

ERR_NONE == 0
EAGAIN == 11
EIO == 5

\* [from, to) of the buffer, as std::copy over volatile char* reads it
in_range(buf, from, to) == [j \in 1..(to - from) |-> buf[from + j - 1]]

\* the consumer's read() returns
in_return(ok) ==
    /\ c_pc' = "idle"
    /\ c_ret' = [ok |-> ok, size |-> c_size]

\* read(): "buffer_half_end_ptr + (bool)empty_buffer * buffer_size"
current_buffer_end_ptr == InBufSize + PosBool(empty_buffer) * InBufSize

\* read(): entry, "read_end_ptr = buffer_user_read_head + output_size"
in_call_read(size) ==
    /\ c_pc' = "r_top"
    /\ c_size' = size
    /\ c_end' = buffer_user_read_head + size
    /\ c_got' = <<>>

\* read(): one pass of the loop up to the wait, or the final copy and return
read_top ==
    /\ c_pc = "r_top"
    /\ IF c_end < current_buffer_end_ptr
       THEN IF c_end < buffer_user_read_head
            THEN \* std::copy(first, last, out) with last < first: undefined;
                 \* the loop copies nothing or runs away
                 \/ /\ buffer_user_read_head' = c_end
                    /\ in_return(TRUE)
                    /\ UNCHANGED <<c_got, delivered, c_end, c_cur_end>>
                 \/ /\ c_pc' = "crashed"
                    /\ UNCHANGED <<buffer_user_read_head, c_ret, c_got, delivered,
                                   c_end, c_cur_end>>
            ELSE /\ c_got' = c_got \o in_range(in_buffer, buffer_user_read_head, c_end)
                 /\ delivered' = delivered \o in_range(in_buffer, buffer_user_read_head, c_end)
                 /\ buffer_user_read_head' = c_end
                 /\ in_return(TRUE)
                 /\ UNCHANGED <<c_end, c_cur_end>>
       ELSE /\ c_got' = c_got \o in_range(in_buffer, buffer_user_read_head,
                                          current_buffer_end_ptr)
            /\ delivered' = delivered \o in_range(in_buffer, buffer_user_read_head,
                                                  current_buffer_end_ptr)
            /\ c_end' = c_end - (current_buffer_end_ptr - buffer_user_read_head)
            /\ c_cur_end' = current_buffer_end_ptr
            /\ c_pc' = "r_wait"
            /\ UNCHANGED <<buffer_user_read_head, c_ret>>
    /\ UNCHANGED <<in_buffer, in_filled, empty_buffer, buffer_read_pending,
                   finalize_reader_thread, reader_pc, reader_side, rfb_buf, rfb_count,
                   in_errno, c_size, fd_in, raw_in, in_oob, agains_left, in_errs_left,
                   in_calls, notIn>>

\* read(): "while (buffer_read_pending) { }  if (finalize_reader_thread) { return false; }
\*          buffer_user_read_head = current_buffer_end_ptr - (bool)empty_buffer * (buffer_size * 2);"
read_wait ==
    /\ c_pc = "r_wait"
    /\ ~buffer_read_pending
    /\ IF finalize_reader_thread
       THEN /\ in_return(FALSE)
            /\ UNCHANGED buffer_user_read_head
       ELSE /\ buffer_user_read_head' = c_cur_end - PosBool(empty_buffer) * (InBufSize * 2)
            /\ c_pc' = "r_pending"
            /\ UNCHANGED c_ret
    /\ UNCHANGED <<in_buffer, in_filled, empty_buffer, buffer_read_pending,
                   finalize_reader_thread, reader_pc, reader_side, rfb_buf, rfb_count,
                   in_errno, c_end, c_cur_end, c_size, c_got, fd_in, raw_in, delivered,
                   in_oob, agains_left, in_errs_left, in_calls, notIn>>

\* read(): "buffer_read_pending = true;"
read_set_pending ==
    /\ c_pc = "r_pending"
    /\ buffer_read_pending' = TRUE
    /\ c_pc' = "r_flip"
    /\ UNCHANGED <<in_buffer, in_filled, buffer_user_read_head, empty_buffer,
                   finalize_reader_thread, reader_pc, reader_side, rfb_buf, rfb_count,
                   in_errno, c_end, c_cur_end, c_size, c_got, c_ret, fd_in, raw_in,
                   delivered, in_oob, agains_left, in_errs_left, in_calls, notIn>>

\* read(): "empty_buffer = !empty_buffer;" and back to the top of the loop
read_flip ==
    /\ c_pc = "r_flip"
    /\ empty_buffer' = PosNot(empty_buffer)
    /\ c_pc' = "r_top"
    /\ UNCHANGED <<in_buffer, in_filled, buffer_user_read_head, buffer_read_pending,
                   finalize_reader_thread, reader_pc, reader_side, rfb_buf, rfb_count,
                   in_errno, c_end, c_cur_end, c_size, c_got, c_ret, fd_in, raw_in,
                   delivered, in_oob, agains_left, in_errs_left, in_calls, notIn>>

\* dispose(): "finalize_reader_thread = true;"
in_dispose_finalize ==
    /\ c_pc = "d_finalize"
    /\ finalize_reader_thread' = TRUE
    /\ c_pc' = "d_flip"
    /\ UNCHANGED <<in_buffer, in_filled, buffer_user_read_head, empty_buffer,
                   buffer_read_pending, reader_pc, reader_side, rfb_buf, rfb_count,
                   in_errno, c_end, c_cur_end, c_size, c_got, c_ret, fd_in, raw_in,
                   delivered, in_oob, agains_left, in_errs_left, in_calls, notIn>>

\* dispose(): "empty_buffer = !empty_buffer;"
in_dispose_flip ==
    /\ c_pc = "d_flip"
    /\ empty_buffer' = PosNot(empty_buffer)
    /\ c_pc' = "d_join"
    /\ UNCHANGED <<in_buffer, in_filled, buffer_user_read_head, buffer_read_pending,
                   finalize_reader_thread, reader_pc, reader_side, rfb_buf, rfb_count,
                   in_errno, c_end, c_cur_end, c_size, c_got, c_ret, fd_in, raw_in,
                   delivered, in_oob, agains_left, in_errs_left, in_calls, notIn>>

\* dispose(): "reader_thread.join();"
in_dispose_join ==
    /\ c_pc = "d_join"
    /\ reader_pc \in {"exited", "failed"}
    /\ c_pc' = "disposed"
    /\ UNCHANGED <<in_buffer, in_filled, buffer_user_read_head, empty_buffer,
                   buffer_read_pending, finalize_reader_thread, reader_pc, reader_side,
                   rfb_buf, rfb_count, in_errno, c_end, c_cur_end, c_size, c_got, c_ret,
                   fd_in, raw_in, delivered, in_oob, agains_left, in_errs_left,
                   in_calls, notIn>>

\* byte offset of the half the reader fills: "buffer" (left) or "buffer + buffer_size" (right)
ReaderBase(side) == IF side = "left" THEN 0 ELSE InBufSize

\* reader_thread_code(): "while (empty_buffer == buffer_position_t::right) { }" (and ::left),
\* then the call of read_full_buffer(buffer [+ buffer_size], buffer_size)
reader_spin ==
    /\ reader_pc = "spin"
    /\ empty_buffer = reader_side
    /\ reader_pc' = "rfb_top"
    /\ rfb_buf' = ReaderBase(reader_side)
    /\ rfb_count' = InBufSize
    /\ UNCHANGED <<in_buffer, in_filled, buffer_user_read_head, empty_buffer,
                   buffer_read_pending, finalize_reader_thread, reader_side, in_errno,
                   c_pc, c_end, c_cur_end, c_size, c_got, c_ret, fd_in, raw_in, delivered,
                   in_oob, agains_left, in_errs_left, in_calls, notIn>>

\* read_full_buffer(): "if (finalize_reader_thread) { return 0; }", and "case 0: return;"
reader_rfb_top ==
    /\ reader_pc = "rfb_top"
    /\ reader_pc' = IF finalize_reader_thread THEN "exited" ELSE "rfb_read"
    /\ UNCHANGED <<in_buffer, in_filled, buffer_user_read_head, empty_buffer,
                   buffer_read_pending, finalize_reader_thread, reader_side, rfb_buf,
                   rfb_count, in_errno, c_pc, c_end, c_cur_end, c_size, c_got, c_ret,
                   fd_in, raw_in, delivered, in_oob, agains_left, in_errs_left,
                   in_calls, notIn>>

\* what ::read(STDIN_FILENO, buf, count) may do: [ret, errno after the call]
\* data: 1..min(count, available) bytes, errno untouched; end of file: 0, errno untouched;
\* no data yet on the non-blocking descriptor: -1/EAGAIN; failure: -1/EIO
RawReadOutcomes(count) ==
    (IF Len(fd_in) = 0
     THEN {[ret |-> 0, errno |-> in_errno]}
     ELSE {[ret |-> n, errno |-> in_errno] :
             n \in 1..(IF count < Len(fd_in) THEN count ELSE Len(fd_in))})
    \cup (IF agains_left > 0 THEN {[ret |-> -1, errno |-> EAGAIN]} ELSE {})
    \cup (IF in_errs_left > 0 THEN {[ret |-> -1, errno |-> EIO]} ELSE {})

\* read_full_buffer(): the raw read and the accounting after it
reader_rfb_read ==
    /\ reader_pc = "rfb_read"
    /\ \E o \in RawReadOutcomes(rfb_count) :
        LET n == IF o.ret > 0 THEN o.ret ELSE 0
            nothing_to_read == IF o.errno = EAGAIN THEN 1 ELSE 0
            bytes_read == o.ret + nothing_to_read
            wrapped == (rfb_count - bytes_read) % SIZE_MOD
            \* a count that has wrapped stays far above anything still to be read
            count == IF wrapped > 2 * InBufSize THEN SIZE_MOD - 1 ELSE wrapped
            next_buf == IF rfb_buf + bytes_read > 2 * InBufSize
                        THEN 2 * InBufSize ELSE rfb_buf + bytes_read
            inside == {a \in rfb_buf..(rfb_buf + n - 1) : a < 2 * InBufSize}
        IN  /\ in_errno' = o.errno
            /\ agains_left' = IF o.ret = -1 /\ o.errno = EAGAIN
                              THEN agains_left - 1 ELSE agains_left
            /\ in_errs_left' = IF o.ret = -1 /\ o.errno = EIO
                               THEN in_errs_left - 1 ELSE in_errs_left
            /\ in_buffer' = [a \in DOMAIN in_buffer |->
                               IF a \in inside THEN fd_in[a - rfb_buf + 1] ELSE in_buffer[a]]
            /\ in_filled' = in_filled \cup inside
            /\ in_oob' = (in_oob \/ rfb_buf + n > 2 * InBufSize)
            /\ fd_in' = DropN(fd_in, n)
            /\ raw_in' = raw_in \o TakeN(fd_in, n)
            /\ IF o.ret = -1 /\ nothing_to_read = 0
               THEN /\ reader_pc' = "fail_finalize"
                    /\ UNCHANGED <<rfb_buf, rfb_count>>
               ELSE /\ rfb_count' = count
                    /\ IF count = 0
                       THEN /\ reader_pc' = "clear"
                            /\ UNCHANGED rfb_buf
                       ELSE /\ reader_pc' = "rfb_top"
                            /\ rfb_buf' = next_buf
    /\ UNCHANGED <<buffer_user_read_head, empty_buffer, buffer_read_pending,
                   finalize_reader_thread, reader_side, c_pc, c_end, c_cur_end, c_size,
                   c_got, c_ret, delivered, in_calls, notIn>>

\* reader_thread_code(): "buffer_read_pending = false;" and on to the other half's spin
reader_clear ==
    /\ reader_pc = "clear"
    /\ buffer_read_pending' = FALSE
    /\ reader_side' = PosNot(reader_side)
    /\ reader_pc' = "spin"
    /\ UNCHANGED <<in_buffer, in_filled, buffer_user_read_head, empty_buffer,
                   finalize_reader_thread, rfb_buf, rfb_count, in_errno, c_pc, c_end,
                   c_cur_end, c_size, c_got, c_ret, fd_in, raw_in, delivered, in_oob,
                   agains_left, in_errs_left, in_calls, notIn>>

\* mutant: the failed reader goes on without setting finalize_reader_thread
reader_fail_finalize_skipped ==
    /\ reader_pc = "fail_finalize"
    /\ reader_pc' = "fail_pending"
    /\ UNCHANGED <<in_buffer, in_filled, buffer_user_read_head, empty_buffer,
                   buffer_read_pending, finalize_reader_thread, reader_side, rfb_buf,
                   rfb_count, in_errno, c_pc, c_end, c_cur_end, c_size, c_got, c_ret,
                   fd_in, raw_in, delivered, in_oob, agains_left, in_errs_left,
                   in_calls, notIn>>

\* reader_thread_code(), case -1: "finalize_reader_thread = true;"
reader_fail_finalize ==
    /\ reader_pc = "fail_finalize"
    /\ finalize_reader_thread' = TRUE
    /\ reader_pc' = "fail_pending"
    /\ UNCHANGED <<in_buffer, in_filled, buffer_user_read_head, empty_buffer,
                   buffer_read_pending, reader_side, rfb_buf, rfb_count, in_errno, c_pc,
                   c_end, c_cur_end, c_size, c_got, c_ret, fd_in, raw_in, delivered,
                   in_oob, agains_left, in_errs_left, in_calls, notIn>>

\* reader_thread_code(), case -1: "buffer_read_pending = false;" and fall through to return
reader_fail_pending ==
    /\ reader_pc = "fail_pending"
    /\ buffer_read_pending' = FALSE
    /\ reader_pc' = "failed"
    /\ UNCHANGED <<in_buffer, in_filled, buffer_user_read_head, empty_buffer,
                   finalize_reader_thread, reader_side, rfb_buf, rfb_count, in_errno,
                   c_pc, c_end, c_cur_end, c_size, c_got, c_ret, fd_in, raw_in, delivered,
                   in_oob, agains_left, in_errs_left, in_calls, notIn>>

----------------------------------------------------------------------------
(* a test consumer of the stdin stream: read(s1); read(s2); ...; dispose()  *)

MaxIn == 4         \* bytes the raw descriptor produces before end of file
MaxRead == 3       \* bytes asked for by one read call
MaxReads == 3      \* read calls before dispose
MaxAgain == 1      \* EAGAIN results of the raw read per run
MaxInErrs == 1     \* failing raw reads per run

consumer_read ==
    /\ c_pc = "idle"
    /\ in_calls < MaxReads
    /\ \E s \in 1..MaxRead : in_call_read(s)
    /\ in_calls' = in_calls + 1
    /\ UNCHANGED <<in_buffer, in_filled, buffer_user_read_head, empty_buffer,
                   buffer_read_pending, finalize_reader_thread, reader_pc, reader_side,
                   rfb_buf, rfb_count, in_errno, c_cur_end, c_ret, fd_in, raw_in,
                   delivered, in_oob, agains_left, in_errs_left, notIn>>

consumer_dispose ==
    /\ c_pc = "idle"
    /\ c_pc' = "d_finalize"
    /\ UNCHANGED <<in_buffer, in_filled, buffer_user_read_head, empty_buffer,
                   buffer_read_pending, finalize_reader_thread, reader_pc, reader_side,
                   rfb_buf, rfb_count, in_errno, c_end, c_cur_end, c_size, c_got, c_ret,
                   fd_in, raw_in, delivered, in_oob, agains_left, in_errs_left,
                   in_calls, notIn>>

----------------------------------------------------------------------------
(* meta_printf: blueprint compiler and program execution                   *)

CH_PERCENT == 37
CH_u == 117

\* the parse table has 129 entries per state: the characters 0..127 and end of input
TABLE_ROW == 129
CH_EOF == 128

\* generate_blueprint_parse_table: the entry at idx, INVALID unless set
blueprint_parse_table(idx) ==
    IF idx = 1 * TABLE_ROW + CH_PERCENT THEN [next_state |-> 2, op_type |-> "NOOP"]
    ELSE IF idx >= 1 * TABLE_ROW /\ idx < 1 * TABLE_ROW + CH_EOF
    THEN [next_state |-> 1, op_type |-> "TEXT"]
    ELSE IF idx = 2 * TABLE_ROW + CH_u THEN [next_state |-> 1, op_type |-> "UINT8"]
    ELSE IF idx = 1 * TABLE_ROW + CH_EOF THEN [next_state |-> 0, op_type |-> "EOFOP"]
    ELSE [next_state |-> 0, op_type |-> "INVALID"]

\* the value of the blueprint character b (a byte 0..255) in "state * 129 + blueprint[i]":
\* char is signed or unsigned, as the target of the build has it
char_value(b, char_signed) == IF char_signed /\ b >= 128 THEN b - 256 ELSE b

\* "blueprint_parse_table[state * 129 + blueprint[i]]"; an index outside the table
\* is no constant expression and fails the build as an invalid entry does
table_entry(state, b, char_signed) ==
    LET idx == state * TABLE_ROW + char_value(b, char_signed)
    IN  IF idx >= 0 /\ idx < TABLE_ROW * 3 THEN blueprint_parse_table(idx)
        ELSE [next_state |-> 0, op_type |-> "INVALID"]

\* the program of a blueprint the build rejects ("meta_printf invalid: blueprint invalid")
InvalidProgram == <<[type |-> "INVALID", text |-> <<>>]>>

\* create_program: the loop over the blueprint, from character i (1-based) on.
\* text_begin = 0 stands for text_encountered = false.
RECURSIVE create_program_loop(_, _, _, _, _, _)
create_program_loop(blueprint, char_signed, i, state, text_begin, program) ==
    IF i > Len(blueprint)
    THEN IF blueprint_parse_table(state * TABLE_ROW + CH_EOF).op_type = "INVALID"
         THEN InvalidProgram
         ELSE IF text_begin > 0
         THEN Append(program, [type |-> "TEXT",
                               text |-> SubSeq(blueprint, text_begin, Len(blueprint))])
         ELSE program
    ELSE LET e == table_entry(state, blueprint[i], char_signed)
         IN  IF e.op_type = "INVALID" THEN InvalidProgram
             ELSE IF e.op_type = "NOOP"
             THEN create_program_loop(blueprint, char_signed, i + 1, e.next_state, 0,
                      IF text_begin > 0
                      THEN Append(program, [type |-> "TEXT",
                                            text |-> SubSeq(blueprint, text_begin, i - 1)])
                      ELSE program)
             ELSE IF e.op_type = "TEXT"
             THEN create_program_loop(blueprint, char_signed, i + 1, e.next_state,
                                      IF text_begin > 0 THEN text_begin ELSE i, program)
             ELSE IF e.op_type = "UINT8"
             THEN create_program_loop(blueprint, char_signed, i + 1, e.next_state,
                                      text_begin,
                                      Append(program, [type |-> "UINT8", text |-> <<>>]))
             ELSE \* EOFOP: the switch has no case for it
                  create_program_loop(blueprint, char_signed, i + 1, state, text_begin,
                                      program)

\* create_program for a build with signed or unsigned char
create_program_for(blueprint, char_signed) ==
    create_program_loop(blueprint, char_signed, 1, 1, 0, <<>>)

\* create_program of a blueprint of characters below 128, the same in every build
create_program(blueprint) == create_program_for(blueprint, TRUE)

\* calculate_num_of_operations: the loop over the blueprint; -1 when the build is
\* rejected
RECURSIVE calculate_num_of_operations_loop(_, _, _, _, _, _)
calculate_num_of_operations_loop(blueprint, char_signed, i, state, text_encountered, result) ==
    IF i > Len(blueprint)
    THEN IF blueprint_parse_table(state * TABLE_ROW + CH_EOF).op_type = "INVALID"
         THEN -1 ELSE result
    ELSE LET e == table_entry(state, blueprint[i], char_signed)
         IN  IF e.op_type = "INVALID" THEN -1
             ELSE IF e.op_type = "NOOP"
             THEN calculate_num_of_operations_loop(blueprint, char_signed, i + 1,
                                                   e.next_state, FALSE, result)
             ELSE IF e.op_type = "TEXT"
             THEN calculate_num_of_operations_loop(blueprint, char_signed, i + 1,
                      e.next_state, TRUE,
                      IF text_encountered THEN result ELSE result + 1)
             ELSE IF e.op_type = "UINT8"
             THEN calculate_num_of_operations_loop(blueprint, char_signed, i + 1,
                      e.next_state, text_encountered, result + 1)
             ELSE calculate_num_of_operations_loop(blueprint, char_signed, i + 1, state,
                                                   text_encountered, result)

calculate_num_of_operations(blueprint, char_signed) ==
    calculate_num_of_operations_loop(blueprint, char_signed, 1, 1, FALSE, 0)

\* execute_program: the byte span each op hands to outputter.copy_input_from_ptr,
\* the UINT8 ops consuming the arguments in order
RECURSIVE execute_program(_, _)
execute_program(program, args) ==
    IF program = <<>> THEN <<>>
    ELSE IF Head(program).type = "TEXT"
    THEN <<Head(program).text>> \o execute_program(Tail(program), args)
    ELSE <<output_uint8(Head(args))>> \o execute_program(Tail(program), Tail(args))

RECURSIVE Flatten(_)
Flatten(spans) == IF spans = <<>> THEN <<>> ELSE Head(spans) \o Flatten(Tail(spans))

\* meta_sprintf_no_terminator(buffer, blueprint, args...): the bytes stored at buffer
meta_sprintf_no_terminator(blueprint, args) ==
    Flatten(execute_program(create_program(blueprint), args))

----------------------------------------------------------------------------
(* main.cpp: patterns and sizes                                            *)

ChunkSize == 3     \* bytes_per_chunk (sizeof...(chunk_indices))
PageSize == 4      \* pagesize = sysconf(_SC_PAGE_SIZE)
PipePages == 4     \* pages of the stdout pipe
MaxLen == 10       \* bytes of stdin
MaxStray == 1      \* reads beyond the input mapping that hit other mapped memory

\* the byte values a stdin file is made of, and the offsets the sample inputs start at
InputBytes == <<0, 255, 7, 42, 100>>
StrayBytes == {0, 255}
InputShifts == {1}
MaxShifted == 6     \* bytes of a stdin that starts at an offset of InputShifts

initial_printf_pattern == <<CH_PERCENT, CH_u>>
single_printf_pattern == <<44, 32, CH_PERCENT, CH_u>>

\* generate_chunked_printf_pattern: the single pattern, once per chunk index
RECURSIVE generate_chunked_printf_pattern(_)
generate_chunked_printf_pattern(k) ==
    IF k = 0 THEN <<>> ELSE single_printf_pattern \o generate_chunked_printf_pattern(k - 1)

printf_pattern == generate_chunked_printf_pattern(ChunkSize)

\* mutant: the pattern length alone
calculate_max_printf_write_length_flat(pattern) == Len(pattern)

\* calculate_max_printf_write_length: pattern length plus one per '%'
calculate_max_printf_write_length(pattern) ==
    Len(pattern) + Cardinality({i \in 1..Len(pattern) : pattern[i] = CH_PERCENT})

max_printf_write_length == calculate_max_printf_write_length(printf_pattern)

\* fcntl(STDOUT_FILENO, F_GETPIPE_SZ)
stdoutPipeBufferSize == PipePages * PageSize

\* outputSource: "const char %s[] { " (c++) and "const char %s[] = { " (c)
PrefixText(language, varname) ==
    <<99, 111, 110, 115, 116, 32, 99, 104, 97, 114, 32>> \o varname \o
    (IF language = "c++" THEN <<91, 93, 32, 123, 32>> ELSE <<91, 93, 32, 61, 32, 123, 32>>)

\* writeOutput(" };\n")
SuffixText == <<32, 125, 59, 10>>

\* flags::varname when --varname is absent
DefaultVarname == <<100, 97, 116, 97>>

EXIT_SUCCESS == 0
EXIT_FAILURE == 1
\* exit_code after a fatal signal (128 + SIGSEGV)
KILLED_BY_SIGNAL == 139

----------------------------------------------------------------------------
(* meta_printf.h: one call of meta_print_to_outputter, operation by        *)
(* operation, into a memory_outputter or the streamed_stdout_outputter     *)

MaxBlueprint == 3      \* characters of a sample blueprint

\* the characters sample blueprints are made of, two of them above 127
BlueprintChars == {CH_PERCENT, CH_u, 44, 200, 246}

\* the sample values of an argument: one, two and three digits
ArgBytes == {0, 9, 10, 99, 100, 255}

\* the sample blueprints: the three patterns of main.cpp and every short string
SampleBlueprints ==
    {initial_printf_pattern, single_printf_pattern, printf_pattern}
    \cup UNION {[1..n -> BlueprintChars] : n \in 0..MaxBlueprint}

\* what the memory the memory_outputter points into holds before the call
MEM_UNTOUCHED == 1

\* bytes of that memory: the longest output, the terminator and the offset of the pointer
PfMemLen == max_printf_write_length + 3

\* the number of UINT8 operations of a program
NumPlaceholders(program) == Cardinality({k \in 1..Len(program) : program[k].type = "UINT8"})

\* a call that has not started: the blueprint bp compiled for a build with signed or
\* unsigned char, the outputter (memory_outputter(buffer) with buffer at offset ptr,
\* or stdout_output), write_nul_terminator and the arguments
PfCall(bp, char_signed, sink, nul, ptr, args) ==
    [pc |-> "compile", blueprint |-> bp, char_signed |-> char_signed,
     sink |-> sink, write_nul_terminator |-> nul, args |-> args, rest_args |-> args,
     program |-> <<>>, num_of_operations |-> 0, operation_index |-> 0,
     mem |-> [a \in 0..(PfMemLen - 1) |-> MEM_UNTOUCHED], buffer |-> ptr, inner_ptr |-> ptr,
     amount_of_bytes_written |-> 0, writes |-> <<>>, ret |-> 0]

\* no call is part of the run
PfUnused == [PfCall(<<>>, TRUE, "memory", FALSE, 0, <<>>) EXCEPT !.pc = "off"]

\* the calls that build: as many uint8_t arguments as the program has UINT8 operations
\* (the static_asserts of execute_program); a rejected blueprint has no call to build
PfCalls(bp, char_signed) ==
    {PfCall(bp, char_signed, sink, nul, ptr, args) :
        sink \in {"memory", "stream"}, nul \in BOOLEAN, ptr \in {0, 1},
        args \in [1..NumPlaceholders(create_program_for(bp, char_signed)) -> ArgBytes]}

\* everything but the call
notPf == <<f_pc, f_input, f_mem, f_inner_ptr, hp, outVars, drvVars, inVars, mainVars, argVars>>

\* "static constexpr auto program = meta::printf::create_program<meta_printf_blueprint>()"
pf_compile ==
    /\ pf.pc = "compile"
    /\ LET program == create_program_for(pf.blueprint, pf.char_signed)
       IN  pf' = [pf EXCEPT
                    !.program = program,
                    !.num_of_operations =
                        calculate_num_of_operations(pf.blueprint, pf.char_signed),
                    !.pc = IF program = InvalidProgram THEN "rejected" ELSE "exec"]
    /\ UNCHANGED notPf

\* a copy_input_from_ptr that does not look at the error state before it writes
copy_input_from_ptr_unguarded(o, bytes, ok) ==
    IF o.sink = "memory"
    THEN LET r == mem_copy_input_from_ptr(o.mem, o.inner_ptr, bytes)
         IN  [o EXCEPT !.mem = r.mem, !.inner_ptr = r.inner_ptr]
    ELSE [o EXCEPT !.writes = Append(@, [bytes |-> bytes, ok |-> ok]),
                   !.amount_of_bytes_written = IF ok THEN @ + Len(bytes) ELSE -1]

\* outputter.copy_input_from_ptr(ptr, size) on the call o: the memory_outputter copies
\* and advances; the streamed_stdout_outputter does nothing once amount_of_bytes_written
\* is -1, else calls stdout_stream::write, which returns ok
copy_input_from_ptr(o, bytes, ok) ==
    IF o.sink = "memory"
    THEN LET r == mem_copy_input_from_ptr(o.mem, o.inner_ptr, bytes)
         IN  [o EXCEPT !.mem = r.mem, !.inner_ptr = r.inner_ptr]
    ELSE IF o.amount_of_bytes_written = -1 THEN o
    ELSE [o EXCEPT !.writes = Append(@, [bytes |-> bytes, ok |-> ok]),
                   !.amount_of_bytes_written = IF ok THEN @ + Len(bytes) ELSE -1]

\* a single-byte write that moves the memory_outputter on, as copy_input_from_ptr does
write_single_byte_incrementing(o, byte, ok) ==
    IF o.sink = "memory"
    THEN [o EXCEPT !.mem = [@ EXCEPT ![o.inner_ptr] = byte], !.inner_ptr = @ + 1]
    ELSE IF o.amount_of_bytes_written = -1 THEN o
    ELSE [o EXCEPT !.writes = Append(@, [bytes |-> <<byte>>, ok |-> ok]),
                   !.amount_of_bytes_written = IF ok THEN @ + 1 ELSE -1]

\* outputter.write_single_byte_no_increment(byte)
write_single_byte_no_increment(o, byte, ok) ==
    IF o.sink = "memory"
    THEN [o EXCEPT !.mem = [@ EXCEPT ![o.inner_ptr] = byte]]
    ELSE IF o.amount_of_bytes_written = -1 THEN o
    ELSE [o EXCEPT !.writes = Append(@, [bytes |-> <<byte>>, ok |-> ok]),
                   !.amount_of_bytes_written = IF ok THEN @ ELSE -1]

\* the operation the call is at
pf_op == pf.program[pf.operation_index + 1]

\* execute_program, TEXT operation
pf_text ==
    /\ pf.pc = "exec"
    /\ pf.operation_index < Len(pf.program)
    /\ pf_op.type = "TEXT"
    /\ \E ok \in BOOLEAN :
          pf' = [copy_input_from_ptr(pf, pf_op.text, ok) EXCEPT !.operation_index = @ + 1]
    /\ UNCHANGED notPf

\* execute_program, UINT8 operation: output_uint8(outputter, first_arg)
pf_uint8 ==
    /\ pf.pc = "exec"
    /\ pf.operation_index < Len(pf.program)
    /\ pf_op.type = "UINT8"
    /\ \E ok \in BOOLEAN :
          pf' = [copy_input_from_ptr(pf, output_uint8(Head(pf.rest_args)), ok) EXCEPT
                    !.operation_index = @ + 1,
                    !.rest_args = Tail(@)]
    /\ UNCHANGED notPf

\* execute_program past the last operation, and "- outputter" of the macro
pf_end ==
    /\ pf.pc = "exec"
    /\ pf.operation_index >= Len(pf.program)
    /\ \E ok \in BOOLEAN :
          LET o == IF pf.write_nul_terminator
                   THEN write_single_byte_no_increment(pf, CH_NUL, ok) ELSE pf
          IN  pf' = [o EXCEPT
                       !.ret = IF o.sink = "memory" THEN o.inner_ptr - o.buffer
                               ELSE o.amount_of_bytes_written - 0,
                       !.pc = "done"]
    /\ UNCHANGED notPf

----------------------------------------------------------------------------
(* meminfo_parser.h: parse_huge_page_size_from_meminfo_file, and           *)
(* main.cpp: mmapWriteDoubleBuffer, which calls it first                   *)

MeminfoBufSize == 4    \* sizeof(buffer) of the parser

CH_TAB == 9
CH_NL == 10
CH_SP == 32
CH_9 == 57
CH_COLON == 58
CH_SEMICOLON == 59

\* "Hugepagesize", sizeof(huge_page_size_key) - 1 characters
huge_page_size_key == <<72, 117, 103, 101, 112, 97, 103, 101, 115, 105, 122, 101>>

is_char_invisible(input) == input = CH_NUL
is_char_preamble(input) == input \in {CH_NL, CH_SP, CH_SEMICOLON}
is_char_skippable(input) == input \in {CH_SP, CH_COLON, CH_TAB}

\* a size_t value returned or stored as ssize_t
to_ssize_t(x) == IF x >= SIZE_MOD \div 2 THEN x - SIZE_MOD ELSE x
\* an ssize_t value stored as size_t
to_size_t(x) == x % SIZE_MOD
\* the largest ssize_t; no mapping is longer
SSIZE_MAX == SIZE_MOD \div 2 - 1

\* decimal digits of a natural, as the kernel prints them
RECURSIVE MeminfoDigits(_)
MeminfoDigits(n) ==
    IF n < 10 THEN <<CH_0 + n>> ELSE Append(MeminfoDigits(n \div 10), CH_0 + (n % 10))

\* newlines before the key line: they move the key over the read boundaries
MeminfoPads == {[k \in 1..n |-> CH_NL] : n \in 0..(MeminfoBufSize - 1)}

\* lines before the key line: none, "Hugo 7\n" (a partial match of the key),
\* "HugepagesizeX: 9\n" (another key that starts with the key)
MeminfoPrefixes ==
    {<<>>, <<72, 117, 103, 111, CH_SP, 55, CH_NL>>,
     huge_page_size_key \o <<88, CH_COLON, CH_SP, CH_9, CH_NL>>}

\* between the key and its value: ": " and ":"
MeminfoSeparators == {<<CH_COLON, CH_SP>>, <<CH_COLON>>}

\* the sample values, in kB
MeminfoValues == {2, 16}

\* after the value: the end of the file, " kB\n", "\n", "MB\n"
MeminfoTails == {<<>>, <<CH_SP, 107, 66, CH_NL>>, <<CH_NL>>, <<77, 66, CH_NL>>}

\* contents without a value for the key: nothing, "Hugo 7\n", "Hugepagesize:\n"
MeminfoKeyless ==
    {<<>>, <<72, 117, 103, 111, CH_SP, 55, CH_NL>>, huge_page_size_key \o <<CH_COLON, CH_NL>>}

\* the sample contents of /proc/meminfo, each with the value (kB) of its key line,
\* -1 for none
MeminfoFiles ==
    {[bytes |-> pad \o pre \o huge_page_size_key \o sep \o MeminfoDigits(kB) \o tail,
      kB |-> kB] :
        pad \in MeminfoPads, pre \in MeminfoPrefixes, sep \in MeminfoSeparators,
        kB \in MeminfoValues, tail \in MeminfoTails}
    \cup {[bytes |-> pad \o b, kB |-> -1] : pad \in MeminfoPads, b \in MeminfoKeyless}

\* the huge page size of the system when /proc/meminfo does not tell
DefaultHugePage == 2048

\* the bufferSize arguments of the sample calls
AllocSizes == {stdoutPipeBufferSize, 2048, 3000}

\* a buffer pointer that no mmap has set
NoBuffer == [state |-> "unset", len |-> 0, huge |-> FALSE]

\* a call of mmapWriteDoubleBuffer on entry: the file the parser will read, the
\* number of failing system calls of the parser, the bufferSize argument
HpCall(file, io_faults, bufferSize) ==
    [pc |-> "open", file |-> file.bytes, kB |-> file.kB, pos |-> 0,
     io_faults |-> io_faults, io_failed |-> FALSE,
     buffer |-> [a \in 0..(MeminfoBufSize - 1) |-> CH_NUL],
     rb_size |-> 0, rb_off |-> 0, ret_to |-> "top",
     bytes_read |-> 0, i |-> 0, j |-> 0, result |-> 0, digit |-> 0, parse_ret |-> 0,
     bufferSize |-> bufferSize, huge_page_size |-> 0, rounded_bufferSize |-> 0,
     bufferA |-> NoBuffer, bufferB |-> NoBuffer, mmaps |-> <<>>, ret |-> 0]

\* no call is part of the run
HpUnused == [HpCall([bytes |-> <<>>, kB |-> -1], 0, 0) EXCEPT !.pc = "off"]

HpCalls ==
    {HpCall(file, io_faults, bufferSize) :
        file \in MeminfoFiles, io_faults \in 0..1, bufferSize \in AllocSizes}

\* everything but the call
notHp == <<f_pc, f_input, f_mem, f_inner_ptr, pf, outVars, drvVars, inVars, mainVars, argVars>>

\* "return value;" of the parser
parse_return(h, value) == [h EXCEPT !.parse_ret = value, !.pc = "parsed"]

\* "bytes_read = read_entire_buffer(fd, buffer, sizeof(buffer));" at one of its five places
call_read_entire_buffer(h, site) ==
    [h EXCEPT !.pc = "read", !.ret_to = site, !.rb_size = MeminfoBufSize, !.rb_off = 0]

\* what follows each of the five calls once read_entire_buffer has returned n
after_read_entire_buffer(h, n) ==
    LET g == [h EXCEPT !.bytes_read = n]
    IN  IF h.ret_to = "value"
        THEN IF n = 0 THEN parse_return(g, to_ssize_t(h.result))
             ELSE IF n = -1 THEN parse_return(g, -1)
             ELSE [g EXCEPT !.i = 0, !.pc = "value_test"]
        ELSE IF n <= 0 THEN parse_return(g, -1)
             ELSE [g EXCEPT !.i = 0,
                            !.pc = CASE h.ret_to = "top" -> "scan"
                                     [] h.ret_to = "preamble" -> "preamble"
                                     [] h.ret_to = "after_key" -> "after_key_test"
                                     [] OTHER -> "noop"]

\* "int fd = open("/proc/meminfo", 0, 0); if (fd == -1) { return -1; }"
parse_open ==
    /\ hp.pc = "open"
    /\ \/ hp' = call_read_entire_buffer(hp, "top")
       \/ /\ hp.io_faults > 0
          /\ hp' = parse_return([hp EXCEPT !.io_faults = @ - 1, !.io_failed = TRUE], -1)
    /\ UNCHANGED notHp

\* read_entire_buffer: one turn of its loop, a raw read of up to size bytes
read_entire_buffer ==
    /\ hp.pc = "read"
    /\ LET remaining == Len(hp.file) - hp.pos
       IN  \/ /\ hp.io_faults > 0
              /\ hp' = after_read_entire_buffer(
                           [hp EXCEPT !.io_faults = @ - 1, !.io_failed = TRUE], -1)
           \/ /\ remaining = 0
              /\ hp' = after_read_entire_buffer(hp, MeminfoBufSize - hp.rb_size)
           \/ \E bytes_read \in 1..(IF remaining < hp.rb_size THEN remaining ELSE hp.rb_size) :
                 LET g == [hp EXCEPT
                             !.buffer = [a \in DOMAIN @ |->
                                 IF a >= hp.rb_off /\ a < hp.rb_off + bytes_read
                                 THEN hp.file[hp.pos + (a - hp.rb_off) + 1] ELSE @[a]],
                             !.pos = @ + bytes_read,
                             !.rb_size = @ - bytes_read,
                             !.rb_off = @ + bytes_read]
                 IN  hp' = IF g.rb_size = 0
                           THEN after_read_entire_buffer(g, MeminfoBufSize) ELSE g
    /\ UNCHANGED notHp

\* the for loop over the buffer: one character compared with huge_page_size_key[j]
parse_scan ==
    /\ hp.pc = "scan"
    /\ hp' = IF ~(hp.i < hp.bytes_read) THEN call_read_entire_buffer(hp, "top")
             ELSE IF is_char_invisible(hp.buffer[hp.i]) THEN [hp EXCEPT !.i = @ + 1]
             ELSE IF hp.buffer[hp.i] # huge_page_size_key[hp.j + 1]
             THEN [hp EXCEPT !.pc = "preamble"]
             ELSE IF hp.j + 1 = Len(huge_page_size_key)
             THEN [hp EXCEPT !.j = @ + 1, !.pc = "after_key"]
             ELSE [hp EXCEPT !.j = @ + 1, !.i = @ + 1]
    /\ UNCHANGED notHp

\* handle_preamble: skip to the next preamble character, then "j = 0; continue;"
parse_handle_preamble ==
    /\ hp.pc = "preamble"
    /\ hp' = IF ~is_char_preamble(hp.buffer[hp.i])
             THEN IF hp.i + 1 = hp.bytes_read
                  THEN call_read_entire_buffer([hp EXCEPT !.i = @ + 1], "preamble")
                  ELSE [hp EXCEPT !.i = @ + 1]
             ELSE [hp EXCEPT !.j = 0, !.i = @ + 1, !.pc = "scan"]
    /\ UNCHANGED notHp

\* after the full key, body of the do loop: "i++;" and the refill at the end of the buffer
parse_after_key ==
    /\ hp.pc = "after_key"
    /\ hp' = IF hp.i + 1 = hp.bytes_read
             THEN call_read_entire_buffer([hp EXCEPT !.i = @ + 1], "after_key")
             ELSE [hp EXCEPT !.i = @ + 1, !.pc = "after_key_test"]
    /\ UNCHANGED notHp

\* "while (is_char_invisible(buffer[i])); if (!is_char_skippable(buffer[i])) { goto
\* handle_preamble; } goto noop_loop;"
parse_after_key_test ==
    /\ hp.pc = "after_key_test"
    /\ hp' = [hp EXCEPT !.pc = IF is_char_invisible(hp.buffer[hp.i]) THEN "after_key"
                               ELSE IF ~is_char_skippable(hp.buffer[hp.i]) THEN "preamble"
                               ELSE "noop"]
    /\ UNCHANGED notHp

\* noop_loop: skip to the first digit; then "size_t result = 0; digit = buffer[i] - '0';"
parse_noop_loop ==
    /\ hp.pc = "noop"
    /\ hp' = IF ~(hp.i < hp.bytes_read) THEN call_read_entire_buffer(hp, "noop")
             ELSE IF hp.buffer[hp.i] < CH_0 \/ hp.buffer[hp.i] > CH_9
             THEN [hp EXCEPT !.i = @ + 1]
             ELSE [hp EXCEPT !.result = 0, !.digit = hp.buffer[hp.i] - CH_0, !.pc = "value"]
    /\ UNCHANGED notHp

\* value_parse_loop: "result = result * 10 + digit; i++;" and the refill
parse_value_parse_loop ==
    /\ hp.pc = "value"
    /\ LET g == [hp EXCEPT !.result = (@ * 10 + hp.digit) % SIZE_MOD, !.i = @ + 1]
       IN  hp' = IF g.i = g.bytes_read THEN call_read_entire_buffer(g, "value")
                 ELSE [g EXCEPT !.pc = "value_test"]
    /\ UNCHANGED notHp

\* "digit = (unsigned char)buffer[i] - '0'; if (digit > '9') { return result * 1024; }"
parse_value_test ==
    /\ hp.pc = "value_test"
    /\ LET digit == (hp.buffer[hp.i] - CH_0) % 256
       IN  hp' = IF digit > CH_9
                 THEN parse_return([hp EXCEPT !.digit = digit],
                                   to_ssize_t((hp.result * 1024) % SIZE_MOD))
                 ELSE [hp EXCEPT !.digit = digit, !.pc = "value"]
    /\ UNCHANGED notHp

\* whether mmap(nullptr, length, ...) may succeed
MmapOutcomes(length) == IF length = 0 \/ length > SSIZE_MAX THEN {FALSE} ELSE BOOLEAN

\* the huge page size of the system: the one its /proc/meminfo tells
SystemHugePage(h) == IF h.kB > 0 THEN h.kB * 1024 ELSE DefaultHugePage

\* the length the kernel maps for a request: whole pages
MappedLength(length, page) == ((length + page - 1) \div page) * page

\* the mapping an mmap call leaves in a buffer pointer
Mapped(h, length, huge, ok) ==
    IF ok THEN [state |-> "mapped", huge |-> huge,
                len |-> MappedLength(length, IF huge THEN SystemHugePage(h) ELSE PageSize)]
    ELSE [state |-> "failed", len |-> 0, huge |-> huge]

\* the call in the log of mmap calls
LogMmap(h, buf, length, huge, ok) ==
    Append(h.mmaps, [buf |-> buf, len |-> length, huge |-> huge, ok |-> ok])

\* "const size_t huge_page_size = parse_huge_page_size_from_meminfo_file();
\*  if (huge_page_size <= 0) { return mmap_write_double_buffer_simple(...); }"
mmapWriteDoubleBuffer_huge_page_size ==
    /\ hp.pc = "parsed"
    /\ LET huge_page_size == to_size_t(hp.parse_ret)
       IN  hp' = [hp EXCEPT !.huge_page_size = huge_page_size,
                            !.pc = IF huge_page_size <= 0 THEN "simple_A" ELSE "huge_A"]
    /\ UNCHANGED notHp

\* "bufferA = mmap(nullptr, bufferSize, ... | MAP_HUGETLB, -1, 0);" and, on failure, the
\* simple variant; "rounded_bufferSize = bufferSize + huge_page_size -
\* (((bufferSize - 1) % huge_page_size) + 1);"
mmapWriteDoubleBuffer_bufferA ==
    /\ hp.pc = "huge_A"
    /\ \E ok \in MmapOutcomes(hp.bufferSize) :
          hp' = [hp EXCEPT
                   !.bufferA = Mapped(hp, hp.bufferSize, TRUE, ok),
                   !.mmaps = LogMmap(hp, "A", hp.bufferSize, TRUE, ok),
                   !.rounded_bufferSize =
                       IF ok
                       THEN (hp.bufferSize + hp.huge_page_size
                             - ((((hp.bufferSize - 1) % SIZE_MOD) % hp.huge_page_size) + 1))
                            % SIZE_MOD
                       ELSE @,
                   !.pc = IF ok THEN "huge_B" ELSE "simple_A"]
    /\ UNCHANGED notHp

\* "bufferB = mmap(nullptr, rounded_bufferSize, ... | MAP_HUGETLB, -1, 0);"
mmapWriteDoubleBuffer_bufferB ==
    /\ hp.pc = "huge_B"
    /\ \E ok \in MmapOutcomes(hp.rounded_bufferSize) :
          hp' = [hp EXCEPT
                   !.bufferB = Mapped(hp, hp.rounded_bufferSize, TRUE, ok),
                   !.mmaps = LogMmap(hp, "B", hp.rounded_bufferSize, TRUE, ok),
                   !.ret = IF ok THEN to_ssize_t(hp.rounded_bufferSize) ELSE @,
                   !.pc = IF ok THEN "done" ELSE "fallback_B"]
    /\ UNCHANGED notHp

\* "bufferB = mmap(nullptr, bufferSize, ...);" without MAP_HUGETLB; on failure
\* "munmap(bufferA, rounded_bufferSize); return -1;", else "return rounded_bufferSize;"
mmapWriteDoubleBuffer_bufferB_fallback ==
    /\ hp.pc = "fallback_B"
    /\ \E ok \in MmapOutcomes(hp.bufferSize) :
          hp' = [hp EXCEPT
                   !.bufferB = Mapped(hp, hp.bufferSize, FALSE, ok),
                   !.mmaps = LogMmap(hp, "B", hp.bufferSize, FALSE, ok),
                   !.bufferA = IF ok THEN @ ELSE [@ EXCEPT !.state = "unmapped", !.len = 0],
                   !.ret = IF ok THEN to_ssize_t(hp.rounded_bufferSize) ELSE -1,
                   !.pc = "done"]
    /\ UNCHANGED notHp

\* mmap_write_double_buffer_simple: "bufferA = mmap(nullptr, bufferSize, ...);
\* if (bufferA == MAP_FAILED) { return -1; }"
mmap_write_double_buffer_simple_bufferA ==
    /\ hp.pc = "simple_A"
    /\ \E ok \in MmapOutcomes(hp.bufferSize) :
          hp' = [hp EXCEPT
                   !.bufferA = Mapped(hp, hp.bufferSize, FALSE, ok),
                   !.mmaps = LogMmap(hp, "A", hp.bufferSize, FALSE, ok),
                   !.ret = IF ok THEN @ ELSE -1,
                   !.pc = IF ok THEN "simple_B" ELSE "done"]
    /\ UNCHANGED notHp

\* mmap_write_double_buffer_simple: "bufferB = mmap(nullptr, bufferSize, ...);" and on
\* failure "munmap(bufferA, bufferSize); return -1;", else "return bufferSize;"
mmap_write_double_buffer_simple_bufferB ==
    /\ hp.pc = "simple_B"
    /\ \E ok \in MmapOutcomes(hp.bufferSize) :
          hp' = [hp EXCEPT
                   !.bufferB = Mapped(hp, hp.bufferSize, FALSE, ok),
                   !.mmaps = LogMmap(hp, "B", hp.bufferSize, FALSE, ok),
                   !.bufferA = IF ok THEN @ ELSE [@ EXCEPT !.state = "unmapped", !.len = 0],
                   !.ret = IF ok THEN to_ssize_t(hp.bufferSize) ELSE -1,
                   !.pc = "done"]
    /\ UNCHANGED notHp

----------------------------------------------------------------------------
(* main.cpp: the main thread                                               *)

\* variables of the stdout stream that entering a stream call leaves alone
outIdle == <<out_buffer, buffer_user_write_head, full_buffer, buffer_flush_pending,
             flush_size, finalize_flusher_thread, flusher_pc, flusher_side, p_ret,
             raw_log, handoffs, call_failed, faults_left>>

notMain == <<fmtVars, drvVars, inVars, argVars>>

stdinFileSize == Len(m_env.input)

m_goto(pc) ==
    /\ m_pc' = pc
    /\ UNCHANGED <<exit_code, stderr_out>>

\* a writeErrorAndExit that returns to its caller instead of ending the process
writeErrorAndExit_returning(message, exitCode) ==
    /\ m_pc' = "halted"
    /\ stderr_out' = "ERROR: " \o message \o "\n"
    /\ UNCHANGED exit_code

\* writeErrorAndExit: the message goes to stderr, std::_Exit(exitCode)
writeErrorAndExit(message, exitCode) ==
    /\ m_pc' = "halted"
    /\ stderr_out' = "ERROR: " \o message \o "\n"
    /\ exit_code' = exitCode

\* the process is killed by a signal (invalid memory access)
m_signal ==
    /\ m_pc' = "halted"
    /\ exit_code' = KILLED_BY_SIGNAL
    /\ UNCHANGED stderr_out

\* the main thread hands bytes to stdout_stream::write
m_stream_write(bytes) ==
    /\ p_pc = "idle"
    /\ out_call_write(bytes)
    /\ m_hist' = [m_hist EXCEPT !.emit = @ \o bytes]
    /\ UNCHANGED <<outIdle, fd_out>>

\* the stream call the main thread made has returned
m_stream_returned == p_pc = "idle"

\* outputSource: std::printf(prefix) and fflush(stdout)
main_prefix ==
    /\ m_pc = "start"
    /\ \/ /\ fd_out' = fd_out \o PrefixText(m_env.language, m_env.varname)
          /\ m_goto("initialize_streams")
       \/ /\ writeErrorAndExit("failed to output to stdout: std::printf failed", EXIT_FAILURE)
          /\ UNCHANGED fd_out
       \/ /\ writeErrorAndExit("failed to flush stdout: fflush failed", EXIT_FAILURE)
          /\ UNCHANGED fd_out
    /\ UNCHANGED <<outIdle, p_pc, p_in, p_op, p_saw, accepted,
                   m_env, m_eng, m_hist, stray_left, notMain>>

\* initialize_streams: stdin_stream::initialize() (may fail), stdout_stream::initialize()
main_initialize_streams ==
    /\ m_pc = "initialize_streams"
    /\ \/ /\ out_initialize
          /\ m_goto("select")
       \/ /\ writeErrorAndExit("failed to initialize stdin stream: stdin_stream::initialize failed",
                               EXIT_FAILURE)
          /\ UNCHANGED flusher_pc
    /\ UNCHANGED <<out_buffer, buffer_user_write_head, full_buffer, buffer_flush_pending,
                   flush_size, finalize_flusher_thread, flusher_side, p_pc, p_in, p_op,
                   p_saw, p_ret, fd_out, accepted, raw_log, handoffs, call_failed,
                   faults_left, m_env, m_eng, m_hist, stray_left, notMain>>

\* an engine is entered: by the selector's fstat tests (cause "select") or because
\* the engine before it returned a fallback code (cause "pipe_size" or "mapping")
m_enter(engine, pc, cause) ==
    /\ m_eng' = [m_eng EXCEPT !.name = engine]
    /\ m_hist' = [m_hist EXCEPT !.ran = Append(@, engine), !.why = Append(@, cause)]
    /\ m_goto(pc)

\* optimizedDataTransformationAndOutput_raw: the fstat tests and the first engine
select_engine ==
    /\ m_pc = "select"
    /\ IF m_env.stdin_kind = "regular"
       THEN IF stdinFileSize = 0
            THEN /\ m_goto("no_data")
                 /\ UNCHANGED <<m_eng, m_hist>>
            ELSE IF m_env.stdout_kind = "fifo"
                 THEN m_enter("mmap_vmsplice", "v_setup", "select")
                 ELSE m_enter("mmap_write", "mw_setup", "select")
       ELSE IF m_env.stdout_kind = "fifo"
            THEN m_enter("read_vmsplice", "v_setup", "select")
            ELSE m_enter("read_write", "rw_first", "select")
    /\ UNCHANGED <<outVars, m_env, stray_left, notMain>>

\* mutant: the missing data is reported, the exit status is EXIT_SUCCESS
main_no_data_success ==
    /\ m_pc = "no_data"
    /\ writeErrorAndExit("no data received, language requires data", EXIT_SUCCESS)
    /\ UNCHANGED <<outVars, m_env, m_eng, m_hist, stray_left, notMain>>

\* output_C_CPP_array_data: the engines reported no data
main_no_data ==
    /\ m_pc = "no_data"
    /\ writeErrorAndExit("no data received, language requires data", EXIT_FAILURE)
    /\ UNCHANGED <<outVars, m_env, m_eng, m_hist, stray_left, notMain>>

\* stdin_stream::get_data_ptr(buffer, size): up to size bytes, fewer only at end of
\* input; a null data_ptr on failure
get_data_ptr(size) ==
    LET avail == stdinFileSize - m_eng.pos
        n == IF size < avail THEN size ELSE avail
    IN  {[data_ptr |-> TRUE, size |-> n,
          bytes |-> SubSeq(m_env.input, m_eng.pos + 1, m_eng.pos + n)],
         [data_ptr |-> FALSE, size |-> 0, bytes |-> <<>>]}

\* the pages mmapStdinFile maps: the file, rounded up to whole pages
MappedEnd == ((stdinFileSize + PageSize - 1) \div PageSize) * PageSize

\* stdinFileData[from .. from + count - 1]: the file's bytes, zeros up to the end of
\* its last page; beyond the mapping a fault (sig), or whatever is mapped there
stdinFileData(from, count) ==
    LET inside(i, b) == IF i < stdinFileSize THEN m_env.input[i + 1]
                        ELSE IF i < MappedEnd THEN 0 ELSE b
        bytes(b) == [j \in 1..count |-> inside(from + j - 1, b)]
    IN  IF from + count <= MappedEnd
        THEN {[sig |-> FALSE, stray |-> 0, bytes |-> bytes(0)]}
        ELSE {[sig |-> TRUE, stray |-> 0, bytes |-> <<>>]}
             \cup (IF stray_left > 0
                   THEN {[sig |-> FALSE, stray |-> 1, bytes |-> bytes(b)] : b \in StrayBytes}
                   ELSE {})

\* streamed_stdout_outputter: one stdout_stream::write per op; after a failed write the
\* rest of the call does nothing and the call returns -1, which the engines report
printf_step ==
    /\ m_pc = "printf"
    /\ m_stream_returned
    /\ IF p_ret.op = "write" /\ ~p_ret.ok
       THEN /\ writeErrorAndExit("failed to output to stdout: meta_printf_no_terminator failed",
                                 EXIT_FAILURE)
            /\ UNCHANGED <<outVars, m_eng, m_hist>>
       ELSE IF m_eng.ops = <<>>
       THEN /\ m_goto(m_eng.cont)
            /\ UNCHANGED <<outVars, m_eng, m_hist>>
       ELSE /\ m_stream_write(Head(m_eng.ops))
            /\ m_eng' = [m_eng EXCEPT !.ops = Tail(@)]
            /\ m_goto("printf")
    /\ UNCHANGED <<m_env, stray_left, notMain>>

----------------------------------------------------------------------------
(* dataMode_mmap_write                                                     *)

\* "stdinFileSize + 1 - bytes_per_chunk" in size_t
mmap_write_chunk_bound == (stdinFileSize + 1 - ChunkSize) % SIZE_MOD

\* mmapStdinFile, and the initial pattern with stdinFileData[0]
mw_setup ==
    /\ m_pc = "mw_setup"
    /\ \/ /\ m_eng' = [m_eng EXCEPT
                           !.ops = execute_program(create_program(initial_printf_pattern),
                                                   <<m_env.input[1]>>),
                           !.cont = "mw_chunks",
                           !.pos = 1]
          /\ m_goto("printf")
          /\ UNCHANGED m_hist
       \/ \* mmap failed: the engine returns false, the selector goes on with read_write
          /\ m_enter("read_write", "rw_first", "mapping")
    /\ UNCHANGED <<outVars, m_env, stray_left, notMain>>

\* "for (i = 1; i < stdinFileSize + 1 - bytes_per_chunk; i += bytes_per_chunk)"
mw_chunks ==
    /\ m_pc = "mw_chunks"
    /\ IF m_eng.pos < mmap_write_chunk_bound
       THEN \E r \in stdinFileData(m_eng.pos, ChunkSize) :
              /\ stray_left' = stray_left - r.stray
              /\ IF r.sig
                 THEN /\ m_signal
                      /\ UNCHANGED m_eng
                 ELSE /\ m_eng' = [m_eng EXCEPT
                                     !.ops = execute_program(create_program(printf_pattern),
                                                             r.bytes),
                                     !.cont = "mw_chunks",
                                     !.pos = @ + ChunkSize]
                      /\ m_goto("printf")
       ELSE /\ m_goto("mw_singles")
            /\ UNCHANGED <<m_eng, stray_left>>
    /\ UNCHANGED <<outVars, m_env, m_hist, notMain>>

\* "for (; i < stdinFileSize; i++)", then munmap and return true
mw_singles ==
    /\ m_pc = "mw_singles"
    /\ IF m_eng.pos < stdinFileSize
       THEN /\ m_eng' = [m_eng EXCEPT
                           !.ops = execute_program(create_program(single_printf_pattern),
                                                   <<m_env.input[m_eng.pos + 1]>>),
                           !.cont = "mw_singles",
                           !.pos = @ + 1]
            /\ m_goto("printf")
       ELSE /\ \/ m_goto("suffix")
               \/ writeErrorAndExit("failed to munmap stdin file", EXIT_FAILURE)
            /\ UNCHANGED m_eng
    /\ UNCHANGED <<outVars, m_env, m_hist, stray_left, notMain>>

----------------------------------------------------------------------------
(* dataMode_read_write                                                     *)

\* get_data_ptr(buffer, 1) and the initial pattern
rw_first ==
    /\ m_pc = "rw_first"
    /\ \E d \in get_data_ptr(1) :
        IF ~d.data_ptr
        THEN /\ writeErrorAndExit("failed to read from stdin: stdin_stream:get_data_ptr failed",
                                  EXIT_FAILURE)
             /\ UNCHANGED m_eng
        ELSE IF d.size = 0
        THEN /\ m_goto("no_data")
             /\ UNCHANGED m_eng
        ELSE /\ m_eng' = [m_eng EXCEPT
                            !.ops = execute_program(create_program(initial_printf_pattern),
                                                    d.bytes),
                            !.cont = "rw_loop",
                            !.pos = @ + d.size]
             /\ m_goto("printf")
    /\ UNCHANGED <<outVars, m_env, m_hist, stray_left, notMain>>

\* one single-pattern call per byte
RECURSIVE single_calls(_)
single_calls(bytes) ==
    IF bytes = <<>> THEN <<>>
    ELSE execute_program(create_program(single_printf_pattern), <<Head(bytes)>>)
         \o single_calls(Tail(bytes))

\* "while (true)": a full chunk, or the short read that ends the input
rw_loop ==
    /\ m_pc = "rw_loop"
    /\ \E d \in get_data_ptr(ChunkSize) :
        IF d.size = ChunkSize
        THEN /\ m_eng' = [m_eng EXCEPT
                            !.ops = execute_program(create_program(printf_pattern), d.bytes),
                            !.cont = "rw_loop",
                            !.pos = @ + d.size]
             /\ m_goto("printf")
        ELSE IF ~d.data_ptr
        THEN /\ writeErrorAndExit("failed to read from stdin: stdin_stream:get_data_ptr failed",
                                  EXIT_FAILURE)
             /\ UNCHANGED m_eng
        ELSE /\ m_eng' = [m_eng EXCEPT !.ops = single_calls(d.bytes),
                                       !.cont = "suffix",
                                       !.pos = @ + d.size]
             /\ m_goto("printf")
    /\ UNCHANGED <<outVars, m_env, m_hist, stray_left, notMain>>

\* dataMode_read_write as a function of the input: what the engine emits after the
\* first byte (whole chunks while a read is full, single bytes after the short read)
RECURSIVE read_write_rest(_)
read_write_rest(S) ==
    IF Len(S) >= ChunkSize
    THEN meta_sprintf_no_terminator(printf_pattern, TakeN(S, ChunkSize))
         \o read_write_rest(DropN(S, ChunkSize))
    ELSE Flatten(single_calls(S))

\* everything dataMode_read_write emits for the non-empty input S
read_write_output(S) ==
    meta_sprintf_no_terminator(initial_printf_pattern, <<S[1]>>) \o read_write_rest(Tail(S))

----------------------------------------------------------------------------
(* dataMode_mmap_vmsplice and dataMode_read_vmsplice                       *)

\* variables of the stdout stream a vmsplice leaves alone
outSplice == <<out_buffer, buffer_user_write_head, full_buffer, buffer_flush_pending,
               flush_size, finalize_flusher_thread, flusher_pc, flusher_side,
               p_pc, p_in, p_op, p_saw, p_ret, accepted, raw_log, handoffs, call_failed>>

\* mmap_vmsplice: "stdinFileDataCutoff = stdinFileSize - bytes_per_chunk" in size_t
stdinFileDataCutoff == (stdinFileSize - ChunkSize) % SIZE_MOD

\* mutant: the fill loop goes on while the buffer is not yet over its capacity
fill_guard_loose == stdoutPipeBufferSize

\* "stdoutPipeBufferSize - max_printf_write_length" in size_t
fill_guard == (stdoutPipeBufferSize - max_printf_write_length) % SIZE_MOD

\* what vmsplice(STDOUT_FILENO, iov, 1, flags) may return for iov_len = len:
\* -1, or the bytes taken (whole pages when fewer than asked)
VmspliceOutcomes(len) ==
    IF faults_left = 0 THEN {len}
    ELSE {-1, len} \cup {k * PageSize : k \in {j \in 0..PipePages : j * PageSize < len}}

\* the next input of a vmsplice engine inside one of its two loops:
\* a whole chunk, the rest of the input (eof), a fault, or a failed stream read
v_fetch ==
    IF m_eng.name = "mmap_vmsplice"
    THEN IF m_eng.pos > stdinFileDataCutoff
         THEN {[kind |-> "eof", stray |-> 0,
                bytes |-> SubSeq(m_env.input, m_eng.pos + 1, stdinFileSize),
                pos |-> IF m_eng.pos < stdinFileSize THEN stdinFileSize ELSE m_eng.pos]}
         ELSE {[kind |-> IF r.sig THEN "sig" ELSE "chunk", stray |-> r.stray,
                bytes |-> r.bytes, pos |-> m_eng.pos + ChunkSize] :
                  r \in stdinFileData(m_eng.pos, ChunkSize)}
    ELSE {[kind |-> IF ~d.data_ptr THEN "fail"
                    ELSE IF d.size < ChunkSize THEN "eof" ELSE "chunk",
           stray |-> 0, bytes |-> d.bytes, pos |-> m_eng.pos + d.size] :
             d \in get_data_ptr(ChunkSize)}

\* the text the engine formats for a fetched input
v_text(f) ==
    IF f.kind = "chunk" THEN meta_sprintf_no_terminator(printf_pattern, f.bytes)
    ELSE Flatten(single_calls(f.bytes))

\* the pages of output buffer buf that a vmsplice returning r refers the pipe to
SplicedPages(buf, r) == [j \in 1..(r \div PageSize) |-> [buf |-> buf, page |-> j - 1]]

\* the pipe after it took the pages: vmsplice waits until the reader of the pipe has
\* made room for them
pipe_after(pipe, pages) ==
    LET over == Len(pipe) + Len(pages) - PipePages
    IN  (IF over > 0 THEN DropN(pipe, over) ELSE pipe) \o pages

\* a vmsplice of bytes of the current buffer; when it does not fail the engine goes on
\* at ok_pc with the locals ok_eng
v_splice(bytes, flags, ok_pc, ok_eng) ==
    \E r \in VmspliceOutcomes(Len(bytes)) :
        /\ faults_left' = IF r = Len(bytes) THEN faults_left ELSE faults_left - 1
        /\ m_hist' = [m_hist EXCEPT
                        !.emit = @ \o bytes,
                        !.splices = Append(@, [buf |-> m_eng.toggle, len |-> Len(bytes),
                                               ret |-> r, flags |-> flags,
                                               accepted |-> Len(accepted)]),
                        !.pipe = IF r = -1 THEN @
                                 ELSE pipe_after(@, SplicedPages(m_eng.toggle, r))]
        /\ IF r = -1
           THEN /\ writeErrorAndExit("failed to output to stdout: vmsplice failed", EXIT_FAILURE)
                /\ UNCHANGED <<fd_out, m_eng>>
           ELSE /\ fd_out' = fd_out \o TakeN(bytes, r)
                /\ m_eng' = ok_eng
                /\ m_goto(ok_pc)

\* mutant: the selector treats the two fallback codes of mmap_vmsplice the other way round
v_setup_swapped ==
    /\ m_pc = "v_setup"
    /\ \/ m_goto("v_first") /\ UNCHANGED <<m_eng, m_hist>>
       \/ IF m_eng.name = "mmap_vmsplice"
          THEN m_enter("read_vmsplice", "v_setup", "pipe_size")
          ELSE m_enter("read_write", "rw_first", "pipe_size")
       \/ IF m_eng.name = "mmap_vmsplice"
          THEN m_enter("mmap_write", "mw_setup", "mapping")
          ELSE m_enter("read_write", "rw_first", "mapping")
    /\ UNCHANGED <<outVars, m_env, stray_left, notMain>>

\* F_GETPIPE_SZ, mmapWriteDoubleBuffer and (mmap engine) mmapStdinFile, each of which
\* may send the selector to a fallback engine
v_setup ==
    /\ m_pc = "v_setup"
    /\ \/ m_goto("v_first") /\ UNCHANGED <<m_eng, m_hist>>
       \/ \* NEEDS_FALLBACK: the pipe-size query failed
          IF m_eng.name = "mmap_vmsplice"
          THEN m_enter("mmap_write", "mw_setup", "pipe_size")
          ELSE m_enter("read_write", "rw_first", "pipe_size")
       \/ \* NEEDS_FALLBACK_FROM_MMAP: a mapping failed
          IF m_eng.name = "mmap_vmsplice"
          THEN m_enter("read_vmsplice", "v_setup", "mapping")
          ELSE m_enter("read_write", "rw_first", "mapping")
    /\ UNCHANGED <<outVars, m_env, stray_left, notMain>>

\* the initial pattern with the first byte, into the first buffer
v_first ==
    /\ m_pc = "v_first"
    /\ IF m_eng.name = "mmap_vmsplice"
       THEN /\ m_eng' = [m_eng EXCEPT
                           !.cur = meta_sprintf_no_terminator(initial_printf_pattern,
                                                              <<m_env.input[1]>>),
                           !.pos = 1]
            /\ m_goto("v_fill")
       ELSE \E d \in get_data_ptr(1) :
              IF ~d.data_ptr
              THEN /\ writeErrorAndExit(
                        "failed to read from stdin: stdin_stream::get_data_ptr failed",
                        EXIT_FAILURE)
                   /\ UNCHANGED m_eng
              ELSE IF d.size = 0
              THEN /\ m_goto("no_data")
                   /\ UNCHANGED m_eng
              ELSE /\ m_eng' = [m_eng EXCEPT
                                  !.cur = meta_sprintf_no_terminator(initial_printf_pattern,
                                                                     d.bytes),
                                  !.pos = @ + d.size]
                   /\ m_goto("v_fill")
    /\ UNCHANGED <<outVars, m_env, m_hist, stray_left, notMain>>

\* "while (amountOfBufferFilled <= stdoutPipeBufferSize - max_printf_write_length)"
v_fill ==
    /\ m_pc = "v_fill"
    /\ IF Len(m_eng.cur) <= fill_guard
       THEN \E f \in v_fetch :
              /\ stray_left' = stray_left - f.stray
              /\ IF f.kind = "sig"
                 THEN m_signal /\ UNCHANGED m_eng
                 ELSE IF f.kind = "fail"
                 THEN /\ writeErrorAndExit(
                           "failed to read from stdin: stdin_stream::get_data_ptr failed",
                           EXIT_FAILURE)
                      /\ UNCHANGED m_eng
                 ELSE /\ m_eng' = [m_eng EXCEPT !.cur = @ \o v_text(f), !.pos = f.pos]
                      /\ m_goto(IF f.kind = "eof" THEN "v_eof" ELSE "v_fill")
       ELSE /\ m_eng' = [m_eng EXCEPT !.tail = stdoutPipeBufferSize - Len(m_eng.cur),
                                      !.tb = <<>>]
            /\ m_goto("v_temp")
            /\ UNCHANGED stray_left
    /\ UNCHANGED <<outVars, m_env, m_hist, notMain>>

\* "for (tempBuffer_head = 0; tempBuffer_head < tempBuffer_tail;)"
v_temp ==
    /\ m_pc = "v_temp"
    /\ IF Len(m_eng.tb) < m_eng.tail
       THEN \E f \in v_fetch :
              /\ stray_left' = stray_left - f.stray
              /\ IF f.kind = "sig"
                 THEN m_signal /\ UNCHANGED m_eng
                 ELSE IF f.kind = "fail"
                 THEN /\ writeErrorAndExit(
                           "failed to read from stdin: stdin_stream::get_data_ptr failed",
                           EXIT_FAILURE)
                      /\ UNCHANGED m_eng
                 ELSE IF f.kind = "chunk"
                 THEN /\ m_eng' = [m_eng EXCEPT !.tb = @ \o v_text(f), !.pos = f.pos]
                      /\ m_goto("v_temp")
                 ELSE IF Len(m_eng.tb \o v_text(f)) <= m_eng.tail
                 THEN \* the staged text fits: memcpy into the current buffer
                      /\ m_eng' = [m_eng EXCEPT !.cur = @ \o m_eng.tb \o v_text(f),
                                                !.tb = m_eng.tb \o v_text(f),
                                                !.pos = f.pos]
                      /\ m_goto("v_eof")
                 ELSE /\ m_eng' = [m_eng EXCEPT !.tb = @ \o v_text(f), !.pos = f.pos]
                      /\ m_goto("v_gift_full")
       ELSE /\ m_goto("v_splice_more")
            /\ UNCHANGED <<m_eng, stray_left>>
    /\ UNCHANGED <<outVars, m_env, m_hist, notMain>>

\* memcpy of tempBuffer_tail bytes, vmsplice of the whole buffer (SPLICE_F_MORE),
\* swap of the buffers, memcpy of the rest of the staging buffer
v_splice_more ==
    /\ m_pc = "v_splice_more"
    /\ v_splice(m_eng.cur \o TakeN(m_eng.tb, m_eng.tail), "SPLICE_F_MORE", "v_fill",
                [m_eng EXCEPT !.toggle = ~@, !.cur = DropN(m_eng.tb, m_eng.tail)])
    /\ UNCHANGED <<outSplice, m_env, stray_left, notMain>>

\* mutant: the sub-page tail is handed to the stream before the splice
v_eof_steps_write_first == <<"stream_write", "vmsplice">>

\* end of input, the text fits the current buffer: the order of the two outputs
v_eof_steps == <<"vmsplice", "stream_write">>

\* "tempBuffer_head = amountOfBufferFilled % pagesize;  iov_len = amountOfBufferFilled -
\* tempBuffer_head"
v_eof_iov_len == Len(m_eng.cur) - (Len(m_eng.cur) % PageSize)

\* vmsplice of the page-aligned part of the current buffer (SPLICE_F_GIFT)
v_last_splice ==
    /\ m_pc = "v_eof"
    /\ m_eng.step <= Len(v_eof_steps)
    /\ v_eof_steps[m_eng.step] = "vmsplice"
    /\ v_splice(TakeN(m_eng.cur, v_eof_iov_len), "SPLICE_F_GIFT", "v_eof",
                [m_eng EXCEPT !.step = @ + 1])
    /\ UNCHANGED <<outSplice, m_env, stray_left, notMain>>

\* "stdout_stream::write(currentStdoutBuffer + iov_len, tempBuffer_head)"
v_tail_write ==
    /\ m_pc = "v_eof"
    /\ m_eng.step <= Len(v_eof_steps)
    /\ v_eof_steps[m_eng.step] = "stream_write"
    /\ m_stream_write(DropN(m_eng.cur, v_eof_iov_len))
    /\ m_goto("v_tail_wait")
    /\ UNCHANGED <<m_env, m_eng, stray_left, notMain>>

\* the write returned
v_tail_wait ==
    /\ m_pc = "v_tail_wait"
    /\ m_stream_returned
    /\ IF ~p_ret.ok
       THEN /\ writeErrorAndExit("failed to output to stdout: stdout_stream::write failed",
                                 EXIT_FAILURE)
            /\ UNCHANGED m_eng
       ELSE /\ m_eng' = [m_eng EXCEPT !.step = @ + 1]
            /\ m_goto("v_eof")
    /\ UNCHANGED <<outVars, m_env, m_hist, stray_left, notMain>>

\* the munmap calls; return SUCCESS
v_eof_unmap ==
    /\ m_pc = "v_eof"
    /\ m_eng.step > Len(v_eof_steps)
    /\ \/ m_goto("suffix")
       \/ writeErrorAndExit("failed to munmap stdout buffer", EXIT_FAILURE)
    /\ UNCHANGED <<outVars, m_env, m_eng, m_hist, stray_left, notMain>>

\* end of input, the staged text does not fit: memcpy of tempBuffer_tail bytes and
\* vmsplice of the whole buffer (SPLICE_F_GIFT)
v_gift_full ==
    /\ m_pc = "v_gift_full"
    /\ v_splice(m_eng.cur \o TakeN(m_eng.tb, m_eng.tail), "SPLICE_F_GIFT", "v_gift_unmap",
                [m_eng EXCEPT !.ops = <<DropN(m_eng.tb, m_eng.tail)>>])
    /\ UNCHANGED <<outSplice, m_env, stray_left, notMain>>

\* the munmap calls after the gift splice
v_gift_unmap ==
    /\ m_pc = "v_gift_unmap"
    /\ \/ m_goto("v_rest_write")
       \/ writeErrorAndExit("failed to munmap stdout buffer", EXIT_FAILURE)
    /\ UNCHANGED <<outVars, m_env, m_eng, m_hist, stray_left, notMain>>

\* "stdout_stream::write(tempBuffer + tempBuffer_tail, amountOfBufferFilled)"
v_rest_write ==
    /\ m_pc = "v_rest_write"
    /\ m_stream_write(Head(m_eng.ops))
    /\ m_eng' = [m_eng EXCEPT !.ops = <<>>]
    /\ m_goto("v_rest_wait")
    /\ UNCHANGED <<m_env, stray_left, notMain>>

\* the write returned; return SUCCESS
v_rest_wait ==
    /\ m_pc = "v_rest_wait"
    /\ m_stream_returned
    /\ IF ~p_ret.ok
       THEN writeErrorAndExit("failed to output to stdout: stdout_stream::write failed",
                              EXIT_FAILURE)
       ELSE m_goto("suffix")
    /\ UNCHANGED <<outVars, m_env, m_eng, m_hist, stray_left, notMain>>

\* the process that reads the stdout pipe takes the oldest page out of it
pipe_drain ==
    /\ m_hist.pipe # <<>>
    /\ m_hist' = [m_hist EXCEPT !.pipe = Tail(@)]
    /\ UNCHANGED <<outVars, m_pc, m_env, m_eng, exit_code, stderr_out, stray_left, notMain>>

----------------------------------------------------------------------------
(* outputSource after the engines, and the end of main                     *)

\* writeOutput(" };\n")
main_suffix ==
    /\ m_pc = "suffix"
    /\ m_stream_write(SuffixText)
    /\ m_goto("suffix_wait")
    /\ UNCHANGED <<m_env, m_eng, stray_left, notMain>>

main_suffix_wait ==
    /\ m_pc = "suffix_wait"
    /\ m_stream_returned
    /\ IF ~p_ret.ok
       THEN writeErrorAndExit("failed to output to stdout: stdout_stream::write failed",
                              EXIT_FAILURE)
       ELSE m_goto("dispose_stdin")
    /\ UNCHANGED <<outVars, m_env, m_eng, m_hist, stray_left, notMain>>

\* main: "stdin_stream::dispose();"
main_dispose_stdin ==
    /\ m_pc = "dispose_stdin"
    /\ m_goto("dispose_stdout")
    /\ UNCHANGED <<outVars, m_env, m_eng, m_hist, stray_left, notMain>>

\* main: "stdout_stream::dispose();"
main_dispose_stdout ==
    /\ m_pc = "dispose_stdout"
    /\ p_pc = "idle"
    /\ out_call_dispose
    /\ m_goto("dispose_wait")
    /\ UNCHANGED <<outIdle, fd_out, accepted, m_env, m_eng, m_hist, stray_left, notMain>>

\* dispose() returned and main falls off its end: the exit status is 0
main_return ==
    /\ m_pc = "dispose_wait"
    /\ p_pc = "idle"
    /\ m_pc' = "exited"
    /\ exit_code' = EXIT_SUCCESS
    /\ UNCHANGED <<stderr_out, outVars, m_env, m_eng, m_hist, stray_left, notMain>>

----------------------------------------------------------------------------
(* a test producer of the stdout stream: write(w1); write(w2); ...;        *)
(* [flush();] ... dispose()                                                *)

MaxCalls == 3     \* write/flush calls before dispose
MaxWrite == 3     \* bytes of one write call
MaxData == 6      \* bytes of all write calls together
MaxFaults == 1    \* raw-write faults injected per run

\* the next n bytes of the test data 1, 2, 3, ...
TestData(n) == [j \in 1..n |-> Len(accepted) + j]

producer_write ==
    /\ p_pc = "idle"
    /\ p_ret.op # "dispose"
    /\ drv_calls < MaxCalls
    /\ \E n \in 0..MaxWrite :
        /\ Len(accepted) + n <= MaxData
        /\ out_call_write(TestData(n))
    /\ drv_calls' = drv_calls + 1
    /\ UNCHANGED <<out_buffer, buffer_user_write_head, full_buffer, buffer_flush_pending,
                   flush_size, finalize_flusher_thread, flusher_pc, flusher_side, p_ret,
                   fd_out, raw_log, handoffs, call_failed, faults_left, fmtVars, inVars, mainVars, argVars>>

producer_flush ==
    /\ p_pc = "idle"
    /\ p_ret.op # "dispose"
    /\ drv_calls < MaxCalls
    /\ out_call_flush
    /\ drv_calls' = drv_calls + 1
    /\ UNCHANGED <<out_buffer, buffer_user_write_head, full_buffer, buffer_flush_pending,
                   flush_size, finalize_flusher_thread, flusher_pc, flusher_side, p_ret,
                   fd_out, accepted, raw_log, handoffs, call_failed, faults_left, fmtVars, inVars, mainVars, argVars>>

producer_dispose ==
    /\ p_pc = "idle"
    /\ p_ret.op # "dispose"
    /\ out_call_dispose
    /\ UNCHANGED <<out_buffer, buffer_user_write_head, full_buffer, buffer_flush_pending,
                   flush_size, finalize_flusher_thread, flusher_pc, flusher_side, p_ret,
                   fd_out, accepted, raw_log, handoffs, call_failed, faults_left,
                   drv_calls, fmtVars, inVars, mainVars, argVars>>

----------------------------------------------------------------------------
(* specifications                                                          *)

\* the stdout stream as its static initialisers leave it
OutStatics ==
    /\ out_buffer = [a \in 0..(2 * OutBufSize - 1) |-> 0]
    /\ buffer_user_write_head = 0
    /\ full_buffer = "right"
    /\ buffer_flush_pending = FALSE
    /\ flush_size = OutBufSize
    /\ finalize_flusher_thread = FALSE
    /\ flusher_side = "left"
    /\ p_pc = "idle"
    /\ p_in = <<>>
    /\ p_op = "none"
    /\ p_saw = FALSE
    /\ p_ret = [op |-> "none", ok |-> TRUE, after_fail |-> FALSE, saw |-> FALSE]
    /\ fd_out = <<>>
    /\ accepted = <<>>
    /\ raw_log = <<>>
    /\ handoffs = <<>>
    /\ call_failed = FALSE

\* the stdin stream as its static initialisers leave it
InStatics ==
    /\ in_buffer = [a \in 0..(2 * InBufSize - 1) |-> 0]
    /\ buffer_user_read_head = 0
    /\ empty_buffer = "right"
    /\ buffer_read_pending = FALSE
    /\ finalize_reader_thread = FALSE
    /\ reader_side = "left"
    /\ rfb_buf = 0
    /\ rfb_count = 0
    /\ in_errno = ERR_NONE
    /\ c_pc = "idle"
    /\ c_end = 0
    /\ c_cur_end = 0
    /\ c_size = 0
    /\ c_got = <<>>
    /\ c_ret = [ok |-> TRUE, size |-> 0]
    /\ raw_in = <<>>
    /\ delivered = <<>>
    /\ in_filled = {}
    /\ in_oob = FALSE
    /\ in_calls = 0

\* a stdin stream that is not part of the run
InUnused ==
    /\ InStatics
    /\ reader_pc = "off"
    /\ fd_in = <<>>
    /\ agains_left = 0
    /\ in_errs_left = 0

\* locals of an engine that has not started
EngInit == [name |-> "none", pos |-> 0, cur |-> <<>>, toggle |-> FALSE, tb |-> <<>>,
            tail |-> 0, step |-> 1, ops |-> <<>>, cont |-> "none"]

MainStatics ==
    /\ m_eng = EngInit
    /\ m_hist = [emit |-> <<>>, splices |-> <<>>, ran |-> <<>>, why |-> <<>>,
                 pipe |-> <<>>]
    /\ exit_code = NOT_EXITED
    /\ stderr_out = ""
    /\ stray_left = MaxStray

\* manageArgs has returned (or is not part of the run)
ArgsUnused ==
    /\ argv = <<>>
    /\ arg_i = 1
    /\ normalArgIndex = 0
    /\ flags_varname = <<>>

\* a main thread that is not part of the run
MainUnused ==
    /\ MainStatics
    /\ ArgsUnused
    /\ m_pc = "off"
    /\ m_env = [language |-> "c", varname |-> DefaultVarname, stdin_kind |-> "other",
                stdout_kind |-> "other", input |-> <<>>]

FmtStatics ==
    /\ f_pc = "off"
    /\ f_input = 0
    /\ f_mem = [a \in 0..(FmtMemLen - 1) |-> CH_NUL]
    /\ f_inner_ptr = 0
    /\ pf = PfUnused
    /\ hp = HpUnused

\* after stdout_stream::initialize()
OutInit ==
    /\ OutStatics
    /\ flusher_pc = "spin"
    /\ faults_left \in 0..MaxFaults
    /\ drv_calls = 0
    /\ FmtStatics
    /\ InUnused
    /\ MainUnused

OutNext ==
    \/ producer_write \/ producer_flush \/ producer_dispose
    \/ write_top \/ write_wait \/ write_set_pending \/ write_flip
    \/ flush_set_size \/ flush_wait \/ flush_set_pending \/ flush_flip \/ flush_finish
    \/ dispose_finalize \/ dispose_flip \/ dispose_join
    \/ flusher_spin \/ flusher_check \/ flusher_write \/ flusher_clear
    \/ flusher_fail_finalize \/ flusher_fail_pending

SpecOut == OutInit /\ [][OutNext]_vars

\* the steps of the thread that calls write(), flush() and dispose()
ProducerStep ==
    \/ write_top \/ write_wait \/ write_set_pending \/ write_flip
    \/ flush_set_size \/ flush_wait \/ flush_set_pending \/ flush_flip \/ flush_finish
    \/ dispose_finalize \/ dispose_flip \/ dispose_join

\* the steps of flusher_thread_code(), the raw ::write included
FlusherStep ==
    \/ flusher_spin \/ flusher_check \/ flusher_write \/ flusher_clear
    \/ flusher_fail_finalize \/ flusher_fail_pending

\* both threads are scheduled again and again and every raw write returns
SpecOutFair == SpecOut /\ WF_vars(ProducerStep) /\ WF_vars(FlusherStep)

FmtInit ==
    /\ f_pc = "start"
    /\ f_input \in 0..255
    /\ f_mem = [a \in 0..(FmtMemLen - 1) |-> CH_NUL]
    /\ f_inner_ptr = 0
    /\ pf = PfUnused
    /\ hp = HpUnused
    /\ OutStatics
    /\ flusher_pc = "off"
    /\ faults_left = 0
    /\ drv_calls = 0
    /\ InUnused
    /\ MainUnused

FmtNext == Fmt_output_uint8

SpecFmt == FmtInit /\ [][FmtNext]_vars

\* one formatter call, from the build of its program to its return value
PrintfInit ==
    /\ f_pc = "off"
    /\ f_input = 0
    /\ f_mem = [a \in 0..(FmtMemLen - 1) |-> CH_NUL]
    /\ f_inner_ptr = 0
    /\ \E bp \in SampleBlueprints, char_signed \in BOOLEAN : pf \in PfCalls(bp, char_signed)
    /\ hp = HpUnused
    /\ OutStatics
    /\ flusher_pc = "off"
    /\ faults_left = 0
    /\ drv_calls = 0
    /\ InUnused
    /\ MainUnused

PrintfNext == pf_compile \/ pf_text \/ pf_uint8 \/ pf_end

SpecPrintf == PrintfInit /\ [][PrintfNext]_vars

\* a call of mmapWriteDoubleBuffer alone
MeminfoInit ==
    /\ f_pc = "off"
    /\ f_input = 0
    /\ f_mem = [a \in 0..(FmtMemLen - 1) |-> CH_NUL]
    /\ f_inner_ptr = 0
    /\ pf = PfUnused
    /\ hp \in HpCalls
    /\ OutStatics
    /\ flusher_pc = "off"
    /\ faults_left = 0
    /\ drv_calls = 0
    /\ InUnused
    /\ MainUnused

MeminfoNext ==
    \/ parse_open \/ read_entire_buffer \/ parse_scan \/ parse_handle_preamble
    \/ parse_after_key \/ parse_after_key_test \/ parse_noop_loop
    \/ parse_value_parse_loop \/ parse_value_test
    \/ mmapWriteDoubleBuffer_huge_page_size \/ mmapWriteDoubleBuffer_bufferA
    \/ mmapWriteDoubleBuffer_bufferB \/ mmapWriteDoubleBuffer_bufferB_fallback
    \/ mmap_write_double_buffer_simple_bufferA \/ mmap_write_double_buffer_simple_bufferB

SpecMeminfo == MeminfoInit /\ [][MeminfoNext]_vars

\* a stdout stream that is not part of the run
OutUnused ==
    /\ OutStatics
    /\ flusher_pc = "off"
    /\ faults_left = 0
    /\ drv_calls = 0

\* after stdin_stream::initialize(): the descriptor will produce 1, 2, ..., n
InInit ==
    /\ InStatics
    /\ reader_pc = "spin"
    /\ \E n \in 0..MaxIn : fd_in = [j \in 1..n |-> j]
    /\ agains_left \in 0..MaxAgain
    /\ in_errs_left \in 0..MaxInErrs
    /\ OutUnused
    /\ FmtStatics
    /\ MainUnused

InNext ==
    \/ consumer_read \/ consumer_dispose
    \/ read_top \/ read_wait \/ read_set_pending \/ read_flip
    \/ in_dispose_finalize \/ in_dispose_flip \/ in_dispose_join
    \/ reader_spin \/ reader_rfb_top \/ reader_rfb_read \/ reader_clear
    \/ reader_fail_finalize \/ reader_fail_pending

SpecIn == InInit /\ [][InNext]_vars

\* the steps of the thread that calls read() and dispose()
ConsumerStep ==
    \/ read_top \/ read_wait \/ read_set_pending \/ read_flip
    \/ in_dispose_finalize \/ in_dispose_flip \/ in_dispose_join

\* the steps of reader_thread_code(), the raw ::read included
ReaderStep ==
    \/ reader_spin \/ reader_rfb_top \/ reader_rfb_read \/ reader_clear
    \/ reader_fail_finalize \/ reader_fail_pending

\* both threads are scheduled again and again and every raw read returns
SpecInFair == SpecIn /\ WF_vars(ConsumerStep) /\ WF_vars(ReaderStep)

\* the inputs of a run: stdin contents of up to MaxLen bytes taken from InputBytes
\* in order, and of up to MaxShifted bytes taken from the offsets InputShifts
InputFrom(n, s) == [i \in 1..n |-> InputBytes[((i - 1 + s) % Len(InputBytes)) + 1]]

Inputs ==
    {InputFrom(n, 0) : n \in 0..MaxLen}
    \cup {InputFrom(n, s) : n \in 0..MaxShifted, s \in InputShifts}

\* the process at the call of outputSource, after manageArgs
MainInit ==
    /\ MainStatics
    /\ ArgsUnused
    /\ m_pc = "start"
    /\ m_env \in [language : {"c", "c++"}, varname : {DefaultVarname},
                  stdin_kind : {"regular", "other"}, stdout_kind : {"fifo", "other"},
                  input : Inputs]
    /\ OutStatics
    /\ flusher_pc = "off"
    /\ faults_left \in 0..MaxFaults
    /\ drv_calls = 0
    /\ FmtStatics
    /\ InUnused

MainNext ==
    \/ main_prefix \/ main_initialize_streams \/ select_engine \/ main_no_data
    \/ printf_step
    \/ mw_setup \/ mw_chunks \/ mw_singles
    \/ rw_first \/ rw_loop
    \/ v_setup \/ v_first \/ v_fill \/ v_temp \/ v_splice_more
    \/ v_last_splice \/ v_tail_write \/ v_tail_wait \/ v_eof_unmap
    \/ v_gift_full \/ v_gift_unmap \/ v_rest_write \/ v_rest_wait \/ pipe_drain
    \/ main_suffix \/ main_suffix_wait \/ main_dispose_stdin \/ main_dispose_stdout
    \/ main_return
    \/ write_top \/ write_wait \/ write_set_pending \/ write_flip
    \/ flush_set_size \/ flush_wait \/ flush_set_pending \/ flush_flip \/ flush_finish
    \/ dispose_finalize \/ dispose_flip \/ dispose_join
    \/ flusher_spin \/ flusher_check \/ flusher_write \/ flusher_clear
    \/ flusher_fail_finalize \/ flusher_fail_pending

SpecMain == MainInit /\ [][MainNext]_vars

----------------------------------------------------------------------------
(* main.cpp: manageArgs and the language test of outputSource              *)

CH_DASH == 45

\* the strings manageArgs and outputSource compare against
STR_varname == <<118, 97, 114, 110, 97, 109, 101>>
STR_help == <<104, 101, 108, 112>>
STR_cpp == <<99, 43, 43>>
STR_c == <<99>>

\* helpText
helpText ==
    <<117, 115, 97, 103, 101, 58, 32, 115, 114, 99, 101, 109, 98, 101, 100, 32, 60, 45, 45,
    104, 101, 108, 112, 62, 32, 124, 124, 32, 40, 91, 45, 45, 118, 97, 114, 110, 97, 109,
    101, 32, 60, 118, 97, 114, 105, 97, 98, 108, 101, 32, 110, 97, 109, 101, 62, 93, 32,
    60, 108, 97, 110, 103, 117, 97, 103, 101, 62, 41, 10, 10, 102, 117, 110, 99, 116, 105,
    111, 110, 58, 32, 99, 111, 110, 118, 101, 114, 116, 115, 32, 105, 110, 112, 117, 116,
    32, 98, 121, 116, 101, 32, 115, 116, 114, 101, 97, 109, 32, 105, 110, 116, 111, 32,
    115, 111, 117, 114, 99, 101, 32, 102, 105, 108, 101, 32, 40, 111, 117, 116, 112, 117,
    116, 32, 116, 104, 114, 111, 117, 103, 104, 32, 115, 116, 100, 111, 117, 116, 41, 10,
    10, 97, 114, 103, 117, 109, 101, 110, 116, 115, 58, 10, 9, 60, 45, 45, 104, 101, 108,
    112, 62, 32, 32, 32, 32, 32, 32, 32, 32, 32, 32, 32, 32, 32, 32, 32, 32, 32, 32, 32,
    32, 32, 32, 45, 45, 62, 32, 100, 105, 115, 112, 108, 97, 121, 115, 32, 104, 101, 108,
    112, 32, 116, 101, 120, 116, 10, 9, 91, 45, 45, 118, 97, 114, 110, 97, 109, 101, 32,
    60, 118, 97, 114, 105, 97, 98, 108, 101, 32, 110, 97, 109, 101, 62, 93, 32, 32, 32, 45,
    45, 62, 32, 115, 112, 101, 99, 105, 102, 105, 101, 115, 32, 116, 104, 101, 32, 118, 97,
    114, 105, 97, 98, 108, 101, 32, 110, 97, 109, 101, 32, 98, 121, 32, 119, 104, 105, 99,
    104, 32, 116, 104, 101, 32, 101, 109, 98, 101, 100, 100, 101, 100, 32, 102, 105, 108,
    101, 32, 115, 104, 97, 108, 108, 32, 98, 101, 32, 114, 101, 102, 101, 114, 114, 101,
    100, 32, 116, 111, 32, 105, 110, 32, 99, 111, 100, 101, 10, 9, 60, 108, 97, 110, 103,
    117, 97, 103, 101, 62, 32, 32, 32, 32, 32, 32, 32, 32, 32, 32, 32, 32, 32, 32, 32, 32,
    32, 32, 32, 32, 45, 45, 62, 32, 115, 112, 101, 99, 105, 102, 105, 101, 115, 32, 116,
    104, 101, 32, 115, 111, 117, 114, 99, 101, 32, 108, 97, 110, 103, 117, 97, 103, 101,
    10, 10, 115, 117, 112, 112, 111, 114, 116, 101, 100, 32, 108, 97, 110, 103, 117, 97,
    103, 101, 115, 32, 40, 112, 111, 115, 115, 105, 98, 108, 101, 32, 105, 110, 112, 117,
    116, 115, 32, 102, 111, 114, 32, 60, 108, 97, 110, 103, 117, 97, 103, 101, 62, 32, 102,
    105, 101, 108, 100, 41, 58, 10, 9, 99, 43, 43, 10, 9, 99, 10>>

MaxArgs == 4      \* arguments after argv[0]

\* the arguments the runs are made of: "--varname", "--help", "--x", "-h", "c", "c++",
\* "d" and the empty string
ArgTokens ==
    {<<CH_DASH, CH_DASH>> \o STR_varname, <<CH_DASH, CH_DASH>> \o STR_help,
     <<CH_DASH, CH_DASH, 120>>, <<CH_DASH, 104>>, STR_c, STR_cpp, <<100>>, <<>>}

argc == Len(argv) + 1

\* s[k] of a NUL-terminated string
CharAt(s, k) == IF k < Len(s) THEN s[k + 1] ELSE CH_NUL

\* std::strcmp(a, b) == 0
StrEqual(a, b) == a = b

\* one pass through the body of manageArgs' loop for argv[arg_i]: the loop goes on
\* ("next", with the new i, normalArgIndex and flags::varname), an error is reported,
\* or the help text is to be written
manageArgs_iteration ==
    LET arg == argv[arg_i]
        flagContent == DropN(arg, 2)
        next(i, nai, vn) == [kind |-> "next", message |-> "", i |-> i, nai |-> nai, vn |-> vn]
        error(message) == [kind |-> "error", message |-> message, i |-> arg_i,
                           nai |-> normalArgIndex, vn |-> flags_varname]
    IN  IF CharAt(arg, 0) = CH_DASH
        THEN IF CharAt(arg, 1) = CH_DASH
             THEN IF StrEqual(flagContent, STR_varname)
                  THEN IF flags_varname # <<>>
                       THEN error("more than one instance of \"--varname\" flag illegal")
                       ELSE IF arg_i + 1 = argc
                       THEN error("\"--varname\" flag requires a value")
                       ELSE next(arg_i + 2, normalArgIndex, <<argv[arg_i + 1]>>)
                  ELSE IF StrEqual(flagContent, STR_help)
                  THEN IF argc # 2
                       THEN error("use of \"--help\" flag with other args is illegal")
                       ELSE [kind |-> "help", message |-> "", i |-> arg_i,
                             nai |-> normalArgIndex, vn |-> flags_varname]
                  ELSE error("one or more invalid flags specified")
             ELSE error("one or more invalid flags specified")
        ELSE IF normalArgIndex # 0
             THEN error("too many non-flag args")
             ELSE next(arg_i + 1, arg_i, flags_varname)

\* manageArgs: "for (int i = 1; i < argc; i++) { ... }", one argument (or one flag with
\* its value) per step
manageArgs_step ==
    /\ m_pc = "manage_args"
    /\ arg_i < argc
    /\ LET r == manageArgs_iteration
       IN  /\ arg_i' = r.i
           /\ normalArgIndex' = r.nai
           /\ flags_varname' = r.vn
           /\ IF r.kind = "next"
              THEN /\ m_goto("manage_args")
                   /\ UNCHANGED <<fd_out, faults_left>>
              ELSE IF r.kind = "error"
              THEN /\ writeErrorAndExit(r.message, EXIT_SUCCESS)
                   /\ UNCHANGED <<fd_out, faults_left>>
              ELSE \* crossplatform_write(STDOUT_FILENO, helpText, ...) and std::exit
                   \E w \in RawWriteOutcomes(Len(helpText)) :
                       /\ faults_left' = IF w = Len(helpText) THEN faults_left
                                         ELSE faults_left - 1
                       /\ IF w = -1
                          THEN /\ writeErrorAndExit("failed to write to stdout", EXIT_FAILURE)
                               /\ UNCHANGED fd_out
                          ELSE /\ fd_out' = fd_out \o TakeN(helpText, w)
                               /\ m_pc' = "exited"
                               /\ exit_code' = EXIT_SUCCESS
                               /\ UNCHANGED stderr_out
    /\ UNCHANGED <<out_buffer, buffer_user_write_head, full_buffer, buffer_flush_pending,
                   flush_size, finalize_flusher_thread, flusher_pc, flusher_side,
                   p_pc, p_in, p_op, p_saw, p_ret, accepted, raw_log, handoffs, call_failed,
                   m_env, m_eng, m_hist, stray_left, argv, fmtVars, drvVars, inVars>>

\* mutant: the missing positional is reported with EXIT_FAILURE
manageArgs_end_failure ==
    /\ m_pc = "manage_args"
    /\ arg_i >= argc
    /\ IF normalArgIndex = 0
       THEN /\ writeErrorAndExit("not enough non-flags args", EXIT_FAILURE)
            /\ UNCHANGED flags_varname
       ELSE /\ flags_varname' = IF flags_varname = <<>> THEN <<DefaultVarname>>
                                ELSE flags_varname
            /\ m_goto("output_source")
    /\ UNCHANGED <<outVars, m_env, m_eng, m_hist, stray_left, argv, arg_i, normalArgIndex,
                   fmtVars, drvVars, inVars>>

\* manageArgs after the loop: the positional is required, flags::varname defaults to "data"
manageArgs_end ==
    /\ m_pc = "manage_args"
    /\ arg_i >= argc
    /\ IF normalArgIndex = 0
       THEN /\ writeErrorAndExit("not enough non-flags args", EXIT_SUCCESS)
            /\ UNCHANGED flags_varname
       ELSE /\ flags_varname' = IF flags_varname = <<>> THEN <<DefaultVarname>>
                                ELSE flags_varname
            /\ m_goto("output_source")
    /\ UNCHANGED <<outVars, m_env, m_eng, m_hist, stray_left, argv, arg_i, normalArgIndex,
                   fmtVars, drvVars, inVars>>

\* outputSource(argv[normalArgIndex]): the strcmp tests on the language
outputSource_language ==
    /\ m_pc = "output_source"
    /\ LET language == argv[normalArgIndex]
       IN  IF StrEqual(language, STR_cpp)
           THEN /\ m_env' = [m_env EXCEPT !.language = "c++", !.varname = flags_varname[1]]
                /\ m_goto("start")
           ELSE IF StrEqual(language, STR_c)
           THEN /\ m_env' = [m_env EXCEPT !.language = "c", !.varname = flags_varname[1]]
                /\ m_goto("start")
           ELSE /\ writeErrorAndExit("invalid language", EXIT_SUCCESS)
                /\ UNCHANGED m_env
    /\ UNCHANGED <<outVars, m_eng, m_hist, stray_left, argVars, fmtVars, drvVars, inVars>>

\* the process at the call of manageArgs
ArgsInit ==
    /\ MainStatics
    /\ m_pc = "manage_args"
    /\ m_env = [language |-> "none", varname |-> <<>>, stdin_kind |-> "other",
                stdout_kind |-> "other", input |-> <<>>]
    /\ argv \in UNION {[1..n -> ArgTokens] : n \in 0..MaxArgs}
    /\ arg_i = 1
    /\ normalArgIndex = 0
    /\ flags_varname = <<>>
    /\ OutStatics
    /\ flusher_pc = "off"
    /\ faults_left \in 0..MaxFaults
    /\ drv_calls = 0
    /\ FmtStatics
    /\ InUnused

ArgsNext == manageArgs_step \/ manageArgs_end \/ outputSource_language

SpecArgs == ArgsInit /\ [][ArgsNext]_vars

----------------------------------------------------------------------------
\* decimal digits of a natural, most significant first, no leading zero
RECURSIVE Decimal(_)
Decimal(n) == IF n < 10 THEN <<CH_0 + n>> ELSE Append(Decimal(n \div 10), CH_0 + (n % 10))

FmtWritten == [j \in 1..f_inner_ptr |-> f_mem[j - 1]]

\* C5: for every byte value v in 0..255 the Uint8Placeholder emit writes the
\* ASCII decimal representation of v (1 to 3 digits, no leading zero except
\* the single digit 0) and advances the sink by exactly that many digits.
C5_DecimalEncoding ==
    f_pc = "done" =>
        /\ FmtWritten = Decimal(f_input)
        /\ f_inner_ptr = (IF f_input < 10 THEN 1 ELSE IF f_input < 100 THEN 2 ELSE 3)
        /\ \A j \in 1..f_inner_ptr : FmtWritten[j] \in CH_0..(CH_0 + 9)
        /\ (f_inner_ptr > 1 => FmtWritten[1] # CH_0)
        /\ \A a \in f_inner_ptr..(FmtMemLen - 1) : f_mem[a] = CH_NUL

C5_Witness ==
    /\ f_pc = "done"
    /\ f_input = 255
    /\ FmtWritten = <<50, 53, 53>>

----------------------------------------------------------------------------
NoRawFault == \A i \in 1..Len(raw_log) : raw_log[i].ret = raw_log[i].count
Disposed == p_pc = "idle" /\ p_ret.op = "dispose"

\* C3: for a writer that invokes write(w1); write(w2); ...; flush(); dispose()
\* the descriptor receives exactly the concatenation of the w_i, in order,
\* without loss, duplication or reordering, for every interleaving of the
\* producer with the flusher (no raw write failing or coming back short).
C3_AsyncStreamOrdering ==
    (Disposed /\ NoRawFault) => fd_out = accepted

----------------------------------------------------------------------------
\* C9: when the flusher's raw write fails it sets terminal_error and exits;
\* the producer observes the error at its next flush-wait (in write or
\* flush) and that call returns failure; every write call made after a call
\* that returned failure also returns failure, without handing off a half
\* or causing any further raw write.
C9_StdoutFailureSemantics ==
    /\ flusher_pc = "dead" => finalize_flusher_thread
    /\ \A i \in 1..Len(raw_log) : raw_log[i].ret = -1 => i = Len(raw_log)
    /\ (p_ret.op \in {"write", "flush"} /\ p_ret.saw) => ~p_ret.ok
    /\ (p_ret.op = "write" /\ p_ret.after_fail) => ~p_ret.ok
    /\ \A i \in 1..Len(handoffs) : ~handoffs[i].after_fail
    /\ \A i \in 1..Len(raw_log) : ~raw_log[i].after_fail

IsPrefix(a, b) == Len(a) <= Len(b) /\ SubSeq(b, 1, Len(a)) = a

\* everything the raw STDIN descriptor produces in this run
InSource == raw_in \o fd_in

\* C6: over any sequence of read calls the bytes delivered to the consumer are
\* exactly the bytes produced by the raw descriptor, in order, without loss,
\* duplication or bytes of a half that was never filled; a read returns fewer
\* bytes than requested only when EOF has been reached, and then it returns
\* everything still available.
C6_StdinReadContract ==
    /\ IsPrefix(delivered, InSource)
    /\ (c_pc = "idle" /\ in_calls > 0 /\ reader_pc \notin {"fail_finalize", "fail_pending", "failed"})
          => (Len(c_got) < c_size => (fd_in = <<>> /\ delivered = InSource))

----------------------------------------------------------------------------
\* the run reached the end of an engine that returned success
EngineDone == m_pc = "suffix"

\* no raw write of the flusher and no vmsplice failed or came back short
NoOutputFault ==
    /\ NoRawFault
    /\ \A i \in 1..Len(m_hist.splices) : m_hist.splices[i].ret = m_hist.splices[i].len

\* the decimal values of S, separated by ", "
RECURSIVE DecimalList(_)
DecimalList(S) ==
    IF S = <<>> THEN <<>>
    ELSE IF Len(S) = 1 THEN Decimal(S[1])
    ELSE DecimalList(SubSeq(S, 1, Len(S) - 1)) \o <<44, 32>> \o Decimal(S[Len(S)])

\* C1: for every non-empty input byte sequence S (lengths below, equal to and
\* not a multiple of the chunk size included) the text emitted between prefix
\* and suffix is the list of exactly |S| decimal values whose i-th value is
\* S[i]: nothing else is ever emitted, and an engine that returns has emitted
\* all of it.
C1_RoundTripFidelity ==
    m_env.input # <<>> =>
        /\ IsPrefix(m_hist.emit, DecimalList(m_env.input) \o SuffixText)
        /\ EngineDone => m_hist.emit = DecimalList(m_env.input)

\* C2: for every input the engines mmap_vmsplice, mmap_write and read_vmsplice
\* emit the byte sequence that read_write emits for that input.
C2_TransportEquivalence ==
    m_env.input # <<>> =>
        /\ IsPrefix(m_hist.emit, read_write_output(m_env.input) \o SuffixText)
        /\ EngineDone => m_hist.emit = read_write_output(m_env.input)

\* C4: the complete stdout of a run that exits with success, no raw output
\* call failing or coming back short, is exactly prefix, decimal values
\* separated by ", " and suffix; the prefix is on the descriptor before any
\* other byte.
C4_FramingLaw ==
    /\ (fd_out # <<>> /\ m_pc # "start") =>
          IsPrefix(PrefixText(m_env.language, m_env.varname), fd_out)
    /\ (exit_code = EXIT_SUCCESS /\ NoOutputFault) =>
          fd_out = PrefixText(m_env.language, m_env.varname)
                      \o DecimalList(m_env.input) \o SuffixText

\* C8: whenever a raw write to stdout failed at any point of the run (a
\* vmsplice of an engine, a write of the flusher in steady state or during the
\* final flush of dispose) the process does not exit with EXIT_SUCCESS.
C8_ExitFailureOnIoFailure ==
    exit_code = EXIT_SUCCESS =>
        /\ \A i \in 1..Len(raw_log) : raw_log[i].ret # -1
        /\ \A i \in 1..Len(m_hist.splices) : m_hist.splices[i].ret # -1

----------------------------------------------------------------------------
\* what stderr holds after a failure that ends the run before any input is looked at
\* or while it is read
SetupFailureMessages ==
    {"ERROR: failed to output to stdout: std::printf failed\n",
     "ERROR: failed to flush stdout: fflush failed\n",
     "ERROR: failed to initialize stdin stream: stdin_stream::initialize failed\n",
     "ERROR: failed to read from stdin: stdin_stream::get_data_ptr failed\n",
     "ERROR: failed to read from stdin: stdin_stream:get_data_ptr failed\n"}

\* C7: when stdin delivers zero bytes, on every selector and fallback path no
\* engine emits anything, the run never ends with success, and unless the
\* set-up or a read failed first it ends with exactly "ERROR: no data
\* received, language requires data\n" on stderr and EXIT_FAILURE; a
\* zero-length regular file runs no engine at all.
C7_EmptyInput ==
    m_env.input = <<>> =>
        /\ m_hist.emit = <<>> /\ m_hist.splices = <<>> /\ accepted = <<>>
        /\ fd_out \in {<<>>, PrefixText(m_env.language, m_env.varname)}
        /\ m_env.stdin_kind = "regular" => m_hist.ran = <<>>
        /\ exit_code \in {NOT_EXITED, EXIT_FAILURE}
        /\ m_pc \in {"start", "initialize_streams", "select", "v_setup", "v_first",
                     "rw_first", "no_data", "halted"}
        /\ (m_pc = "halted" /\ stderr_out \notin SetupFailureMessages) =>
              /\ stderr_out = "ERROR: no data received, language requires data\n"
              /\ exit_code = EXIT_FAILURE

C7_Witness ==
    /\ m_env.input = <<>>
    /\ m_env.stdin_kind = "other"
    /\ m_hist.ran = <<"read_vmsplice", "read_write">>
    /\ m_pc = "halted"
    /\ stderr_out = "ERROR: no data received, language requires data\n"
    /\ exit_code = EXIT_FAILURE

----------------------------------------------------------------------------
\* the engine the selector entered last
LastEngine == IF m_hist.ran = <<>> THEN "none" ELSE m_hist.ran[Len(m_hist.ran)]

\* the bytes the first k vmsplice calls were given, together
RECURSIVE SplicedLen(_)
SplicedLen(k) == IF k = 0 THEN 0 ELSE SplicedLen(k - 1) + m_hist.splices[k].len

\* C10: in the vmsplice engines the input's values are emitted in input order;
\* the splices are issued one after the other on alternating buffers, no byte
\* has been handed to the async stdout stream when a splice is issued, and
\* (no splice coming back short) the spliced bytes are on the descriptor, in
\* emit order, right after the prefix and before every byte of the stream.
C10_VmspliceOrdering ==
    LET n == Len(m_hist.splices)
        D == DecimalList(m_env.input)
    IN  /\ n > 0 => LastEngine \in {"mmap_vmsplice", "read_vmsplice"}
        /\ \A i \in 1..n : m_hist.splices[i].accepted = 0
        /\ \A i \in 1..n : raw_log # <<>> => accepted # <<>>
        /\ \A i \in 1..(n - 1) : m_hist.splices[i + 1].buf # m_hist.splices[i].buf
        /\ LastEngine \in {"mmap_vmsplice", "read_vmsplice"} =>
              \/ IsPrefix(m_hist.emit, D \o SuffixText)
              \/ IsPrefix(D, m_hist.emit)
        /\ (n > 0 /\ \A i \in 1..n : m_hist.splices[i].ret = m_hist.splices[i].len) =>
              IsPrefix(PrefixText(m_env.language, m_env.varname)
                          \o TakeN(m_hist.emit, SplicedLen(n)), fd_out)

C10_Witness ==
    /\ LastEngine = "mmap_vmsplice"
    /\ Len(m_hist.splices) >= 2
    /\ \A i \in 1..Len(m_hist.splices) : m_hist.splices[i].ret = m_hist.splices[i].len
    /\ Len(accepted) > Len(SuffixText)
    /\ m_pc = "exited"

----------------------------------------------------------------------------
\* the bytes of the first k hand-offs
RECURSIVE HandedOffBytes(_)
HandedOffBytes(k) == IF k = 0 THEN 0 ELSE HandedOffBytes(k - 1) + handoffs[k].filled

\* bytes copied into the buffer for which no raw write has been issued yet
Buffered == Len(accepted) - Len(p_in) - HandedOffBytes(Len(raw_log))

\* C11: in the async stdout stream at most one half is waiting for or
\* undergoing a raw write at any time; the producer starts a hand-off only
\* when every earlier hand-off has had its raw write (it blocks otherwise),
\* and the data accepted into the buffer but not yet given to a raw write
\* never exceeds 2B (as long as no call has reported a failure).
C11_Backpressure ==
    /\ Len(handoffs) - Len(raw_log) \in {0, 1}
    /\ p_pc \in {"w_pending", "w_flip", "fl_pending", "fl_flip"} =>
          Len(handoffs) = Len(raw_log) /\ flusher_pc \in {"spin", "check"}
    /\ ~call_failed => Buffered <= 2 * OutBufSize

C11_Witness ==
    /\ p_pc = "w_wait"
    /\ buffer_flush_pending
    /\ flusher_pc = "write"
    /\ Len(handoffs) = Len(raw_log) + 1
    /\ Buffered = 2 * OutBufSize
    /\ p_in # <<>>

----------------------------------------------------------------------------
ARG_varname == <<CH_DASH, CH_DASH>> \o STR_varname
ARG_help == <<CH_DASH, CH_DASH>> \o STR_help

\* an argument that starts with '-'
FlagLike(a) == a # <<>> /\ a[1] = CH_DASH

\* the argument lists with at most one "--varname <value>" and exactly one positional
WellFormedArgs(av) ==
    \/ Len(av) = 1 /\ ~FlagLike(av[1])
    \/ Len(av) = 3 /\ av[1] = ARG_varname /\ ~FlagLike(av[3])
    \/ Len(av) = 3 /\ ~FlagLike(av[1]) /\ av[2] = ARG_varname

\* the positional and the variable name of a well-formed argument list
PositionalOf(av) == IF Len(av) = 3 /\ av[1] = ARG_varname THEN 3 ELSE 1
VarnameOf(av) == IF Len(av) = 1 THEN DefaultVarname
                 ELSE IF av[1] = ARG_varname THEN av[2] ELSE av[3]

ArgumentErrorMessages ==
    {"ERROR: more than one instance of \"--varname\" flag illegal\n",
     "ERROR: \"--varname\" flag requires a value\n",
     "ERROR: use of \"--help\" flag with other args is illegal\n",
     "ERROR: one or more invalid flags specified\n",
     "ERROR: too many non-flag args\n",
     "ERROR: not enough non-flags args\n"}

\* C12: every argument error (unknown flag, "--varname" more than once or
\* without a value, no positional, more than one positional, unknown
\* language) ends the run with an "ERROR: ...\n" message on stderr and
\* EXIT_SUCCESS, nothing written to stdout; manageArgs returns for exactly
\* the argument lists with at most one "--varname <value>" and exactly one
\* positional, with that positional and that variable name.
C12_ConfigurationErrors ==
    /\ m_pc \in {"output_source", "start"} =>
          /\ WellFormedArgs(argv)
          /\ normalArgIndex = PositionalOf(argv)
          /\ flags_varname = <<VarnameOf(argv)>>
    /\ m_pc = "start" =>
          /\ argv[normalArgIndex] \in {STR_c, STR_cpp}
          /\ m_env.varname = VarnameOf(argv)
          /\ m_env.language = (IF argv[normalArgIndex] = STR_c THEN "c" ELSE "c++")
    /\ (m_pc = "halted" /\ argv # <<ARG_help>>) =>
          /\ exit_code = EXIT_SUCCESS
          /\ fd_out = <<>>
          /\ IF WellFormedArgs(argv)
             THEN /\ stderr_out = "ERROR: invalid language\n"
                  /\ argv[PositionalOf(argv)] \notin {STR_c, STR_cpp}
             ELSE stderr_out \in ArgumentErrorMessages
    /\ (m_pc = "halted" /\ argv = <<>>) => stderr_out = "ERROR: not enough non-flags args\n"
    /\ (m_pc = "exited") => argv = <<ARG_help>>

C12_Witness ==
    /\ argv = <<ARG_varname, <<100>>, ARG_varname, STR_c>>
    /\ m_pc = "halted"
    /\ stderr_out = "ERROR: more than one instance of \"--varname\" flag illegal\n"
    /\ exit_code = EXIT_SUCCESS

\* C13: "--help" as the only argument writes the help text to stdout and
\* exits with success; "--help" together with any other argument, in any
\* position, ends with an error message and success, and neither the help
\* text nor generated source is produced.
C13_HelpFlag ==
    /\ (argv = <<ARG_help>> /\ m_pc = "exited") =>
          /\ exit_code = EXIT_SUCCESS /\ stderr_out = ""
          /\ IsPrefix(fd_out, helpText)
          /\ faults_left = MaxFaults => fd_out = helpText
    /\ (Len(argv) > 1 /\ \E k \in 1..Len(argv) : argv[k] = ARG_help) =>
          /\ fd_out = <<>>
          /\ m_pc \notin {"output_source", "start", "exited"}
          /\ m_pc = "halted" => (exit_code = EXIT_SUCCESS /\ stderr_out # "")


----------------------------------------------------------------------------
\* the half a byte offset of the stdout buffer lies in
OutHalfOf(a) == IF a < OutBufSize THEN "left" ELSE "right"

\* the offsets the copy of write() is about to store to
CopyTargets ==
    IF p_pc = "w_top"
    THEN LET free_space == OutBufSize + PosBool(full_buffer) * OutBufSize
                             - buffer_user_write_head
             n == IF Len(p_in) < free_space THEN Len(p_in) ELSE free_space
         IN  buffer_user_write_head .. (buffer_user_write_head + n - 1)
    ELSE {}

\* the offsets the raw write of the flusher is about to load from
FlushSources ==
    IF flusher_pc = "write"
    THEN FlusherBase(flusher_side) .. (FlusherBase(flusher_side) + flush_size - 1)
    ELSE {}

\* the half that was handed off and whose flush is still pending (at the
\* flip of write() and flush() the flag is set and the half not yet handed off)
PendingHalves ==
    IF buffer_flush_pending /\ handoffs # <<>> /\ p_pc \notin {"w_flip", "fl_flip"}
    THEN {handoffs[Len(handoffs)].side} ELSE {}

----------------------------------------------------------------------------
\* the half a byte offset of the stdin buffer lies in
InHalfOf(a) == IF a < InBufSize THEN "left" ELSE "right"

\* the half the consumer reads from: the one empty_buffer does not name
ActiveInHalf == PosNot(empty_buffer)

\* the offsets the copy of read() is about to load from
ReadSources ==
    IF c_pc = "r_top"
    THEN LET last == IF c_end < current_buffer_end_ptr THEN c_end
                     ELSE current_buffer_end_ptr
         IN  buffer_user_read_head .. (last - 1)
    ELSE {}

\* the offsets the raw read of the reader thread may store to
FillTargets ==
    IF reader_pc = "rfb_read" /\ fd_in # <<>>
    THEN rfb_buf .. (rfb_buf + (IF rfb_count < Len(fd_in) THEN rfb_count ELSE Len(fd_in)) - 1)
    ELSE {}

\* C15: the reader thread stores into a half only after the consumer has
\* drained it and marked it for refill (buffer_read_pending set, empty_buffer
\* naming that half); the consumer never loads from the half whose refill is
\* pending; and once the consumer has swapped to the other half, every byte
\* of that half has been stored by the reader.
C15_StdinHalfOwnership ==
    /\ c_pc \notin {"d_join", "disposed"} =>
          \A a \in FillTargets :
              /\ buffer_read_pending
              /\ InHalfOf(a) = empty_buffer
              /\ a \in DOMAIN in_buffer
    /\ \A a \in ReadSources :
          buffer_read_pending => InHalfOf(a) # empty_buffer
    /\ (c_pc = "r_top" /\ empty_buffer = "left") =>
          \A a \in DOMAIN in_buffer : InHalfOf(a) = ActiveInHalf => a \in in_filled


----------------------------------------------------------------------------
\* C16: the k-th raw write of the flusher emits the k-th half handed off; a
\* half handed off by write() is emitted with length exactly buffer_size, and
\* a half handed off by flush() with the number of bytes filled in it, for
\* every interleaving of producer and flusher.
C16_FlushSizeDiscipline ==
    \A k \in 1..Len(raw_log) :
        /\ k <= Len(handoffs)
        /\ raw_log[k].side = handoffs[k].side
        /\ handoffs[k].by = "write" => raw_log[k].count = OutBufSize
        /\ handoffs[k].by = "flush" => raw_log[k].count = handoffs[k].filled


----------------------------------------------------------------------------
\* number of bytes the first k raw writes of the flusher were issued for
RECURSIVE PassedBytes(_)
PassedBytes(k) == IF k = 0 THEN 0 ELSE PassedBytes(k - 1) + raw_log[k].count

\* flush() has just returned true and no call before it failed
FlushSucceeded ==
    /\ p_pc = "idle"
    /\ p_ret.op = "flush" /\ p_ret.ok
    /\ ~call_failed

\* C17: when flush() returns success, every byte accepted by the earlier
\* write calls has been passed to the raw descriptor (and is in its output
\* when no raw write failed or was short), the last raw write emitted the
\* partially filled half with the number of bytes filled in it, flush_size is
\* buffer_size again and the write head is at the start of the active half.
C17_FlushPostcondition ==
    FlushSucceeded =>
        /\ Len(raw_log) = Len(handoffs)
        /\ PassedBytes(Len(raw_log)) = Len(accepted)
        /\ NoRawFault => fd_out = accepted
        /\ handoffs # <<>>
        /\ handoffs[Len(handoffs)].by = "flush"
        /\ raw_log[Len(raw_log)].count = handoffs[Len(handoffs)].filled
        /\ flush_size = OutBufSize
        /\ buffer_user_write_head = PosBool(full_buffer) * OutBufSize
        /\ ~buffer_flush_pending


----------------------------------------------------------------------------
\* the raw writes after which the flusher has cleared buffer_flush_pending
ClearedWrites == IF flusher_pc = "clear" THEN Len(raw_log) - 1 ELSE Len(raw_log)

\* C18: when the flusher clears buffer_flush_pending after a hand-off, all
\* flush_size bytes of the handed-off half have been taken by the descriptor:
\* a raw write that does not fail and takes fewer bytes than requested is
\* followed by the rest of the half before the flag is cleared.
C18_CompleteEmission ==
    /\ \A k \in 1..ClearedWrites :
          raw_log[k].ret # -1 => raw_log[k].ret = raw_log[k].count
    /\ (ClearedWrites = Len(raw_log) /\ \A k \in 1..Len(raw_log) : raw_log[k].ret # -1)
          => Len(fd_out) = PassedBytes(Len(raw_log))


----------------------------------------------------------------------------
----------------------------------------------------------------------------
\* dispose() is past its flush(): at one of its own three statements, or returned
PastFinalFlush == p_pc \in {"d_finalize", "d_flip", "d_join"} \/ Disposed

\* C20: once the flush() of dispose() has returned, the flusher issues no
\* further raw write: every raw write made belongs to a hand-off of write()
\* or flush(), and the flip dispose() uses to end the flusher's spin only
\* lets the flusher see finalize_flusher_thread and return.
C20_DisposeNoExtraWrite ==
    PastFinalFlush =>
        /\ Len(raw_log) = Len(handoffs)
        /\ flusher_pc \in {"spin", "check", "exited", "dead"}
        /\ flusher_pc = "check" => finalize_flusher_thread
        /\ ~buffer_flush_pending

C20_Witness ==
    /\ Disposed
    /\ flusher_pc = "exited"
    /\ full_buffer = flusher_side
    /\ Len(raw_log) >= 2
    /\ raw_log[Len(raw_log)].count < OutBufSize


----------------------------------------------------------------------------
\* C21: with both threads scheduled fairly, a dispose() of the stdin stream
\* that has been entered returns, whatever the reader thread is doing:
\* spinning for either half, in the middle of a refill, or already returned.
C21_StdinDisposeTerminates ==
    (c_pc \in {"d_finalize", "d_flip", "d_join"}) ~> (c_pc = "disposed")


----------------------------------------------------------------------------
\* the consumer is inside a read() call
InRead == c_pc \in {"r_top", "r_wait", "r_pending", "r_flip"}

\* C22: when the raw descriptor is at end of file during a refill, the reader
\* thread clears buffer_read_pending and returns, so a consumer waiting for
\* that half is released: with both threads scheduled fairly every read()
\* call returns (or has run into the undefined copy), also at end of file.
C22_ReaderEndOfFile ==
    /\ InRead ~> (c_pc \in {"idle", "crashed"})
    /\ (reader_pc = "rfb_read" /\ fd_in = <<>> /\ c_pc = "r_wait")
          ~> (~buffer_read_pending)


----------------------------------------------------------------------------
\* the consumer has entered its first read() and copied nothing yet
AtFirstRead == in_calls = 1 /\ c_pc = "r_top" /\ c_got = <<>> /\ delivered = <<>>

\* C23: after a successful initialize() the first half of the buffer holds
\* the first bytes of the input (all buffer_size of them, or the whole input
\* when end of file comes earlier) before the first read() copies from it,
\* and the first refill of the reader thread is of the second half.
C23_StdinInitialize ==
    /\ AtFirstRead =>
          \A a \in DOMAIN in_buffer :
              (InHalfOf(a) = "left" /\ a < Len(InSource)) =>
                  (a \in in_filled /\ in_buffer[a] = InSource[a + 1])
    /\ (reader_pc = "rfb_read" /\ in_filled = {}) => reader_side = "right"


----------------------------------------------------------------------------
\* the reader thread has returned after a raw read error
ReaderFailed == reader_pc = "failed"

\* C24: after a raw read error other than EAGAIN the reader sets
\* finalize_reader_thread before it clears buffer_read_pending and returns;
\* a read() that waits for that half then returns false, and in doing so
\* leaves buffer_user_read_head where it was and hands off no half.
C24_ReaderError ==
    /\ [](reader_pc = "fail_pending" => finalize_reader_thread /\ buffer_read_pending)
    /\ [](ReaderFailed => finalize_reader_thread /\ ~buffer_read_pending)
    /\ []((c_pc = "idle" /\ ~c_ret.ok) => ReaderFailed)
    /\ [][(c_pc = "r_wait" /\ c_pc' # c_pc /\ ReaderFailed) =>
             /\ c_pc' = "idle" /\ ~c_ret'.ok
             /\ buffer_user_read_head' = buffer_user_read_head
             /\ empty_buffer' = empty_buffer
             /\ buffer_read_pending' = buffer_read_pending]_vars

C24_Witness ==
    /\ c_pc = "idle" /\ ~c_ret.ok
    /\ ReaderFailed
    /\ raw_in # <<>>
    /\ in_calls >= 2


----------------------------------------------------------------------------
\* C25: in read_full_buffer every raw read that stores n bytes (n = 0 for an
\* EAGAIN result and at end of file) advances the fill position by n and
\* lowers the remaining count by exactly n, also after an earlier EAGAIN,
\* and the refill is complete exactly when the remaining count reaches 0.
C25_RefillAccounting ==
    [][(reader_pc = "rfb_read" /\ reader_pc' \in {"rfb_top", "clear"}) =>
          LET n == Len(raw_in') - Len(raw_in)
          IN  /\ rfb_count' = rfb_count - n
              /\ reader_pc' = "rfb_top" => rfb_buf' = rfb_buf + n
              /\ (reader_pc' = "clear") <=> (rfb_count = n)]_vars


----------------------------------------------------------------------------
\* the engine the selector tries first for the kinds of stdin and stdout
FirstEngine(stdin_kind, stdout_kind) ==
    IF stdin_kind = "regular"
    THEN IF stdout_kind = "fifo" THEN "mmap_vmsplice" ELSE "mmap_write"
    ELSE IF stdout_kind = "fifo" THEN "read_vmsplice" ELSE "read_write"

\* the fallback table: the engine tried after a setup failure of an engine
FallbackEngine(engine, cause) ==
    IF engine = "mmap_vmsplice"
    THEN IF cause = "mapping" THEN "read_vmsplice" ELSE "mmap_write"
    ELSE IF engine \in {"mmap_write", "read_vmsplice"} THEN "read_write"
    ELSE "none"

----------------------------------------------------------------------------
\* an engine is at its setup, where the engine before it has just given up
AtEngineEntry == m_pc \in {"v_setup", "mw_setup", "rw_first"}

\* an engine was entered because the one before it reported a fallback
FellBack == Len(m_hist.ran) >= 2

\* C27: when an engine is entered after a fallback, the engine before it
\* has consumed no input byte and emitted nothing (no text, no splice, no
\* byte given to the stdout stream), so a run whose chain has a fallback
\* emits the decimal list of the whole input, every byte once.
C27_FallbackBeforeTransfer ==
    /\ AtEngineEntry =>
          /\ m_hist.emit = <<>> /\ m_hist.splices = <<>>
          /\ accepted = <<>>
          /\ m_eng.pos = 0 /\ m_eng.cur = <<>>
    /\ (FellBack /\ m_env.input # <<>>) =>
          /\ IsPrefix(m_hist.emit, DecimalList(m_env.input) \o SuffixText)
          /\ EngineDone => m_hist.emit = DecimalList(m_env.input)


----------------------------------------------------------------------------
\* C28: for every file size n >= 1 the two mmap engines never read an input
\* index >= n: the position never passes n, no read leaves the mapping, and
\* a chunk emit is entered only when a complete group of bytes_per_chunk
\* bytes is left, so n - K and n + 1 - K never enable a chunk emit by
\* wrapping; what they emit is the decimal list of the n input bytes.
C28_MmapInputIteration ==
    (m_eng.name \in {"mmap_write", "mmap_vmsplice"} /\ stdinFileSize >= 1) =>
        /\ m_eng.pos <= stdinFileSize
        /\ exit_code # KILLED_BY_SIGNAL
        /\ stray_left = MaxStray
        /\ (m_pc = "mw_chunks" /\ m_eng.pos < mmap_write_chunk_bound) =>
              m_eng.pos + ChunkSize <= stdinFileSize
        /\ (m_eng.name = "mmap_vmsplice" /\ m_eng.pos >= 1
                /\ m_eng.pos <= stdinFileDataCutoff) =>
              m_eng.pos + ChunkSize <= stdinFileSize
        /\ IsPrefix(m_hist.emit, DecimalList(m_env.input) \o SuffixText)


----------------------------------------------------------------------------
\* one of the two vmsplice engines is running
InVmspliceEngine == m_eng.name \in {"mmap_vmsplice", "read_vmsplice"}

\* C29: in both vmsplice engines the fill level of the current output buffer
\* never exceeds the pipe capacity and the head of the staging buffer never
\* exceeds 2 * max_printf_write_length, also on the end-of-input paths that
\* append the single-byte emits of the last incomplete chunk; what is spliced
\* or handed to the stream from them stays inside these buffers.
C29_VmspliceBufferBounds ==
    InVmspliceEngine =>
        /\ Len(m_eng.cur) <= stdoutPipeBufferSize
        /\ Len(m_eng.tb) <= 2 * max_printf_write_length
        /\ m_pc \in {"v_temp", "v_splice_more", "v_gift_full"} =>
              /\ m_eng.tail = stdoutPipeBufferSize - Len(m_eng.cur)
              /\ m_eng.tail < max_printf_write_length
        /\ m_pc \in {"v_splice_more", "v_gift_full"} => Len(m_eng.tb) >= m_eng.tail
        /\ \A i \in 1..Len(m_hist.splices) : m_hist.splices[i].len <= stdoutPipeBufferSize

C29_Witness ==
    /\ m_eng.name = "read_vmsplice"
    /\ m_pc = "v_gift_full"
    /\ Len(m_eng.tb) > max_printf_write_length
    /\ Len(m_eng.cur) + m_eng.tail = stdoutPipeBufferSize


----------------------------------------------------------------------------
\* the last vmsplice call made
LastSplice == m_hist.splices[Len(m_hist.splices)]

\* C30: at the hand-off after the staging loop exactly pipe size - fill bytes
\* of the staging buffer complete the current buffer, a gift splice of
\* exactly the pipe size is issued for it, the engine swaps to the other
\* buffer and the rest of the staged bytes become that buffer's content,
\* the fill level being their count: emitted and buffered text together are
\* what they were, in order.
C30_VmspliceHandoffSplit ==
    [][(m_pc = "v_splice_more" /\ m_pc' = "v_fill") =>
          LET moved == stdoutPipeBufferSize - Len(m_eng.cur)
          IN  /\ moved <= Len(m_eng.tb)
              /\ Len(m_hist'.splices) = Len(m_hist.splices) + 1
              /\ LastSplice'.len = stdoutPipeBufferSize
              /\ LastSplice'.flags = "SPLICE_F_GIFT"
              /\ LastSplice'.buf = m_eng.toggle
              /\ m_hist'.emit = m_hist.emit \o m_eng.cur \o TakeN(m_eng.tb, moved)
              /\ m_eng'.toggle # m_eng.toggle
              /\ m_eng'.cur = DropN(m_eng.tb, moved)
              /\ Len(m_eng'.cur) = Len(m_eng.tb) - moved
              /\ m_hist'.emit \o m_eng'.cur = m_hist.emit \o m_eng.cur \o m_eng.tb]_vars


----------------------------------------------------------------------------
\* the pipe holds a page of output buffer buf that has one of the bytes from..to-1
Held(pipe, buf, from, to) ==
    \E i \in 1..Len(pipe) :
        /\ pipe[i].buf = buf
        /\ \E off \in from..(to - 1) : pipe[i].page = off \div PageSize

\* the main thread is in the loops of a vmsplice engine, where it stores into the
\* current output buffer
InVmspliceLoops == InVmspliceEngine /\ m_pc \in {"v_fill", "v_temp", "v_splice_more", "v_gift_full"}

\* consecutive splices take alternate buffers
C31_Alternation ==
    \A i \in 1..(Len(m_hist.splices) - 1) : m_hist.splices[i + 1].buf # m_hist.splices[i].buf

\* the engine stores into a buffer spliced before only after the splice of the other one
C31_AfterOtherSplice ==
    (InVmspliceLoops /\ m_hist.splices # <<>>) => LastSplice.buf # m_eng.toggle

\* a step of the engine that stores into, reads from or unmaps an output buffer
\* touches no page the pipe holds
C31_NoTouchBeforeDrain ==
    /\ (InVmspliceLoops /\ m_eng'.toggle = m_eng.toggle /\ m_eng'.cur # m_eng.cur) =>
           ~Held(m_hist.pipe, m_eng.toggle, Len(m_eng.cur), Len(m_eng'.cur))
    /\ (m_pc \in {"v_splice_more", "v_gift_full"} /\ m_hist'.splices # m_hist.splices) =>
           ~Held(m_hist.pipe, m_eng.toggle, Len(m_eng.cur), stdoutPipeBufferSize)
    /\ (m_pc = "v_splice_more" /\ m_pc' = "v_fill") =>
           ~Held(m_hist'.pipe, m_eng'.toggle, 0, Len(m_eng'.cur))
    /\ (m_pc = "v_eof" /\ m_pc' = "v_tail_wait") =>
           ~Held(m_hist.pipe, m_eng.toggle, v_eof_iov_len, Len(m_eng.cur))
    /\ (\/ m_pc = "v_eof" /\ m_pc' = "suffix"
        \/ m_pc = "v_gift_unmap" /\ m_pc' = "v_rest_write") => m_hist.pipe = <<>>

\* C31: consecutive splices of a vmsplice engine use alternate buffers, the program
\* does not read, write or unmap a page handed to the pipe before the reader of the
\* pipe has taken it out, and it writes into a buffer spliced before only after the
\* splice of the other buffer has returned.
C31_GiftSafety ==
    /\ []C31_Alternation
    /\ []C31_AfterOtherSplice
    /\ [][C31_NoTouchBeforeDrain]_vars


----------------------------------------------------------------------------
\* the step is the vmsplice of the final, partly filled buffer
FinalSpliceStep == m_pc = "v_eof" /\ m_hist'.splices # m_hist.splices

\* the step hands the rest of the final buffer to stdout_stream::write
FinalTailStep == m_pc = "v_eof" /\ m_pc' = "v_tail_wait"

\* the splice and the stream write of a final buffer filled with f bytes, leaving
\* the flags of the splice aside
C32_FinalSplit ==
    LET f == Len(m_eng.cur)
    IN  /\ FinalSpliceStep =>
              /\ LastSplice'.len = f - (f % PageSize)
              /\ LastSplice'.buf = m_eng.toggle
              /\ m_hist'.emit = m_hist.emit \o TakeN(m_eng.cur, f - (f % PageSize))
              /\ m_eng.step = 1
        /\ FinalTailStep =>
              /\ p_in' = DropN(m_eng.cur, f - (f % PageSize))
              /\ Len(p_in') = f % PageSize
              /\ Len(p_in') < PageSize
              /\ m_eng.step = 2
              /\ m_hist.splices # <<>> /\ LastSplice.len = f - (f % PageSize)
              /\ Len(m_hist'.emit) >= f
              /\ DropN(m_hist'.emit, Len(m_hist'.emit) - f) = m_eng.cur

\* C32: at end of input with f bytes in the buffer the engine splices exactly
\* the page-aligned prefix of f - (f mod page size) bytes, with zero flags, and
\* writes the other f mod page size bytes, fewer than a page, through the stdout
\* stream: prefix and tail are the f buffered bytes in order.
C32_FinalPartialBuffer ==
    [][/\ C32_FinalSplit
       /\ FinalSpliceStep => LastSplice'.flags = "0"]_vars


----------------------------------------------------------------------------
\* the call is one main.cpp makes: one of its three blueprints, no terminator
\* (meta_sprintf_no_terminator, meta_printf_no_terminator)
MainBlueprint ==
    /\ pf.blueprint \in {initial_printf_pattern, single_printf_pattern, printf_pattern}
    /\ ~pf.write_nul_terminator

\* the bytes the call handed to stdout_stream::write with success
RECURSIVE StreamedLen(_)
StreamedLen(writes) ==
    IF writes = <<>> THEN 0
    ELSE (IF Head(writes).ok THEN Len(Head(writes).bytes) ELSE 0) + StreamedLen(Tail(writes))

\* C33: with the initial, the single or the chunk blueprint and any byte arguments,
\* one formatter call emits at most calculate_max_printf_write_length of the chunk
\* blueprint bytes (max_printf_write_length, which the fill guard and the staging
\* buffer are sized by), and at most that of its own blueprint.
C33_EmitLengthBound ==
    (pf.pc = "done" /\ MainBlueprint) =>
        /\ pf.ret <= calculate_max_printf_write_length(pf.blueprint)
        /\ calculate_max_printf_write_length(pf.blueprint) <= max_printf_write_length
        /\ pf.inner_ptr - pf.buffer <= max_printf_write_length
        /\ StreamedLen(pf.writes) <= max_printf_write_length

C33_Witness ==
    /\ pf.pc = "done" /\ pf.blueprint = printf_pattern /\ pf.sink = "memory"
    /\ ~pf.write_nul_terminator
    /\ pf.ret = max_printf_write_length
    /\ Len(pf.args) = ChunkSize


----------------------------------------------------------------------------
\* every '%' of the blueprint is immediately followed by 'u'
WellFormedBlueprint(bp) ==
    \A i \in 1..Len(bp) : bp[i] = CH_PERCENT => (i < Len(bp) /\ bp[i + 1] = CH_u)

\* the length of the longest prefix of bp without '%'
RECURSIVE LiteralRun(_)
LiteralRun(bp) ==
    IF bp = <<>> \/ Head(bp) = CH_PERCENT THEN 0 ELSE 1 + LiteralRun(Tail(bp))

\* the program of a well-formed blueprint: a placeholder per "%u", a Text operation
\* per maximal run of other bytes
RECURSIVE ProgramOf(_)
ProgramOf(bp) ==
    IF bp = <<>> THEN <<>>
    ELSE IF Head(bp) = CH_PERCENT
    THEN <<[type |-> "UINT8", text |-> <<>>]>> \o ProgramOf(DropN(bp, 2))
    ELSE <<[type |-> "TEXT", text |-> TakeN(bp, LiteralRun(bp))]>>
         \o ProgramOf(DropN(bp, LiteralRun(bp)))

\* the build of the call's program has been attempted
Compiled == pf.pc \in {"exec", "done", "rejected"}

\* C34: compiling a blueprint succeeds if and only if every '%' is immediately
\* followed by 'u' (another byte or the end of input after '%' is rejected as
\* "blueprint invalid"); in state 1 '%' flushes the pending literal span, every
\* other byte extends it, and the end of input flushes it: the program is a
\* placeholder per "%u" and one Text operation per maximal run of other bytes.
C34_FormatCompiler ==
    Compiled =>
        IF WellFormedBlueprint(pf.blueprint)
        THEN pf.pc # "rejected" /\ pf.program = ProgramOf(pf.blueprint)
        ELSE pf.pc = "rejected"


----------------------------------------------------------------------------
\* the number of "%u" in a blueprint
RECURSIVE CountPlaceholders(_)
CountPlaceholders(bp) ==
    IF Len(bp) < 2 THEN 0
    ELSE IF bp[1] = CH_PERCENT /\ bp[2] = CH_u THEN 1 + CountPlaceholders(DropN(bp, 2))
    ELSE CountPlaceholders(Tail(bp))

\* the Text spans of a program concatenated, with "%u" for each placeholder
RECURSIVE Reassemble(_)
Reassemble(program) ==
    IF program = <<>> THEN <<>>
    ELSE (IF Head(program).type = "UINT8" THEN <<CH_PERCENT, CH_u>> ELSE Head(program).text)
         \o Reassemble(Tail(program))

\* no two adjacent Text operations and no empty Text operation
TextOpsNormal(program) ==
    /\ \A i \in 1..Len(program) : program[i].type = "TEXT" => program[i].text # <<>>
    /\ \A i \in 1..(Len(program) - 1) :
           ~(program[i].type = "TEXT" /\ program[i + 1].type = "TEXT")

\* as many operations as calculate_num_of_operations sized the program for, each set
ProgramFilled ==
    /\ Len(pf.program) = pf.num_of_operations
    /\ \A i \in 1..Len(pf.program) : pf.program[i].type \in {"TEXT", "UINT8"}

\* C35: for every blueprint that compiles, the program has no two adjacent Text
\* operations and no empty Text operation, exactly one Uint8Placeholder per "%u"
\* of the blueprint, gives the blueprint back when its Text spans are
\* concatenated with "%u" for each placeholder, and has exactly as many
\* operations as calculate_num_of_operations returns, every one of them set.
C35_ProgramInvariants ==
    pf.pc \in {"exec", "done"} =>
        /\ TextOpsNormal(pf.program)
        /\ NumPlaceholders(pf.program) = CountPlaceholders(pf.blueprint)
        /\ Reassemble(pf.program) = pf.blueprint
        /\ ProgramFilled


----------------------------------------------------------------------------
\* the bytes a program stands for: its Text spans and the decimal digits of the
\* arguments, the placeholders taking the arguments in order
RECURSIVE ExpectedOutput(_, _)
ExpectedOutput(program, args) ==
    IF program = <<>> THEN <<>>
    ELSE IF Head(program).type = "TEXT"
    THEN Head(program).text \o ExpectedOutput(Tail(program), args)
    ELSE Decimal(Head(args)) \o ExpectedOutput(Tail(program), Tail(args))

MemoryCallDone == pf.pc = "done" /\ pf.sink = "memory"

\* C36: executing a program into a memory_outputter stores the Text spans and the
\* decimal arguments consecutively from the given pointer, the arguments taken
\* in order, and returns the number of bytes stored; with write_nul_terminator
\* one NUL is stored at the end position, neither counted nor advanced over, and
\* without it no byte at or beyond the returned length is stored; nothing
\* before the pointer is stored either.
C36_MemorySink ==
    MemoryCallDone =>
        LET expected == ExpectedOutput(pf.program, pf.args)
        IN  /\ pf.ret = Len(expected)
            /\ pf.inner_ptr = pf.buffer + pf.ret
            /\ pf.rest_args = <<>>
            /\ \A a \in DOMAIN pf.mem :
                  pf.mem[a] =
                      IF a >= pf.buffer /\ a < pf.buffer + pf.ret
                      THEN expected[a - pf.buffer + 1]
                      ELSE IF a = pf.buffer + pf.ret /\ pf.write_nul_terminator
                      THEN CH_NUL
                      ELSE MEM_UNTOUCHED

\* a call with the terminator, text and three arguments, stored from offset 1
C36_Witness ==
    /\ MemoryCallDone
    /\ pf.write_nul_terminator
    /\ pf.buffer = 1
    /\ pf.blueprint = printf_pattern
    /\ pf.args = <<255, 0, 10>>
    /\ pf.mem[pf.buffer + pf.ret] = CH_NUL


----------------------------------------------------------------------------
\* a stdout_stream::write of the call has failed
StreamFailed == \E k \in 1..Len(pf.writes) : ~pf.writes[k].ok

\* the operations and the terminator the call has got to so far
StepsDone == pf.operation_index + (IF pf.pc = "done" /\ pf.write_nul_terminator THEN 1 ELSE 0)

\* C37: with the stdout stream as sink, the first failed stream write leaves the
\* sink in its error state (amount_of_bytes_written = -1); every later operation
\* of the call attempts no stream write, so the failed write is the last one of
\* the call, and the call returns -1; a call none of whose writes failed made
\* one write per operation and does not return -1.
C37_StickyError ==
    (pf.sink = "stream" /\ pf.pc \in {"exec", "done"}) =>
        /\ \A k \in 1..Len(pf.writes) : ~pf.writes[k].ok => k = Len(pf.writes)
        /\ StreamFailed <=> pf.amount_of_bytes_written = -1
        /\ ~StreamFailed => Len(pf.writes) = StepsDone
        /\ pf.pc = "done" => (StreamFailed <=> pf.ret = -1)

\* C37: once a stream write has failed, no step of the call writes to the stream
\* or leaves the error state.
C37_NoWriteAfterFailure ==
    [][(pf.sink = "stream" /\ StreamFailed) =>
           /\ pf'.writes = pf.writes
           /\ pf'.amount_of_bytes_written = -1]_vars

C37_StreamSink == []C37_StickyError /\ C37_NoWriteAfterFailure

\* the first write of a three-argument call failed and the other operations and
\* the terminator were skipped
C37_Witness ==
    /\ pf.pc = "done"
    /\ pf.sink = "stream"
    /\ pf.write_nul_terminator
    /\ Len(pf.program) >= 3
    /\ Len(pf.writes) = 1
    /\ StreamFailed
    /\ pf.ret = -1


----------------------------------------------------------------------------
\* the main thread has reported a fatal error (it was not killed by a signal)
FatalReported == m_pc = "halted" /\ exit_code # KILLED_BY_SIGNAL

\* the step in which the main thread reports a fatal error
ReportStep == m_pc # "halted" /\ m_pc' = "halted" /\ exit_code' # KILLED_BY_SIGNAL

\* C38: on a fatal-error path the message is on stderr and the process has
\* exited with the given code; no stream disposer was entered and the main thread
\* is in no stream call.
C38_Reported ==
    FatalReported =>
        /\ stderr_out # ""
        /\ exit_code \in {EXIT_SUCCESS, EXIT_FAILURE}
        /\ p_pc = "idle"
        /\ p_op # "dispose"
        /\ ~finalize_flusher_thread \/ FlusherFailed

\* C38: the step that reports the error hands nothing to the flusher and does
\* not end or join it; after it no thread of the process takes a step: the main
\* thread performs no flush, hand-off or join and the flusher is abandoned
\* where it was.
C38_NoCleanup ==
    [][/\ ReportStep => UNCHANGED <<handoffs, full_buffer, buffer_flush_pending, flush_size,
                                    finalize_flusher_thread, flusher_pc, raw_log>>
       /\ m_pc = "halted" => UNCHANGED <<outVars, inVars, m_pc, exit_code, stderr_out>>]_vars

C38_FatalExit == []C38_Reported /\ C38_NoCleanup

\* an error reported while the flusher runs and accepted bytes wait in the buffer,
\* none of them written to the descriptor
C38_Witness ==
    /\ FatalReported
    /\ exit_code = EXIT_FAILURE
    /\ flusher_pc \in {"spin", "check", "write", "clear"}
    /\ accepted # <<>>
    /\ buffer_user_write_head > 0
    /\ raw_log = <<>>


----------------------------------------------------------------------------
\* the parser has returned
Parsed == hp.pc \notin {"off", "open", "read", "scan", "preamble", "after_key",
                        "after_key_test", "noop", "value", "value_test"}

\* C40: for every content of the memory-info file and every placement of the
\* read boundaries (inside the key, between key and value, inside the digits,
\* at the end of the file) the parser returns the decimal value that follows
\* the key "Hugepagesize" multiplied by 1024, or a negative sentinel when a
\* system call failed or the content holds no value for the key.
C40_HugePageParser ==
    Parsed =>
        IF hp.io_failed \/ hp.kB = -1
        THEN hp.parse_ret < 0
        ELSE hp.parse_ret = hp.kB * 1024


----------------------------------------------------------------------------
\* mmapWriteDoubleBuffer has returned
AllocDone == hp.pc = "done"

\* both buffer pointers hold a mapping
BothMapped == hp.bufferA.state = "mapped" /\ hp.bufferB.state = "mapped"

\* a mapping with MAP_HUGETLB was asked for
HugeAttempted == \E k \in 1..Len(hp.mmaps) : hp.mmaps[k].huge

\* every failed huge-page mapping is followed by a base-page request of bufferSize
\* bytes for the same buffer
HugeFailureFallsBack ==
    \A k \in 1..Len(hp.mmaps) :
        (hp.mmaps[k].huge /\ ~hp.mmaps[k].ok) =>
            /\ k < Len(hp.mmaps)
            /\ hp.mmaps[k + 1] \in {[buf |-> hp.mmaps[k].buf, len |-> hp.bufferSize,
                                     huge |-> FALSE, ok |-> ok] : ok \in BOOLEAN}

\* the lengths the call may return: the requested size, or that size rounded up to
\* the next multiple of the huge page size the parser returned
ReturnedLengths ==
    {hp.bufferSize}
    \cup (IF hp.parse_ret > 0 THEN {MappedLength(hp.bufferSize, hp.parse_ret)} ELSE {})

\* C39: mmapWriteDoubleBuffer returns -1 only when it failed to obtain two
\* buffers; when the parser returns its error sentinel it asks for base pages
\* only, and when a huge-page mapping fails it falls back to base pages; on
\* success both buffers are mapped for at least the returned length, which is
\* the requested size or that size rounded up to the next multiple of the huge
\* page size.
C39_BufferAllocation ==
    AllocDone =>
        /\ hp.ret = -1 => ~BothMapped
        /\ hp.parse_ret < 0 => ~HugeAttempted
        /\ HugeFailureFallsBack
        /\ hp.ret # -1 =>
              /\ BothMapped
              /\ hp.ret \in ReturnedLengths
              /\ hp.bufferA.len >= hp.ret
              /\ hp.bufferB.len >= hp.ret
====
